---- MODULE Spec2Model ----
(***************************************************************************)
(* State-machine model of hw/stm32.c: the general purpose timer module     *)
(* (GPTM), the system controller (SSYS), the I2C master controller and the *)
(* ADC, as memory-mapped register blocks driven by the virtual clock.      *)
(*                                                                         *)
(* Representation.  TLC integers are 32-bit signed, so                     *)
(*   - a register whose modelled values stay below 2^31 is a natural;      *)
(*   - a uint32_t whose top bit or wrap-around matters (rcc, rcc2, the ADC *)
(*     noise accumulator) is a pair of 16-bit halves [hi, lo];             *)
(*   - an int64_t virtual time in ns is a pair <<seconds, nanoseconds>>.   *)
(* hw_error() aborts the emulator: the model sets hw_error and freezes the *)
(* device state as of the handler's entry; no handler runs afterwards.     *)
(***************************************************************************)
EXTENDS Integers, Sequences, FiniteSets, TLC

VARIABLES gptm, ghist, now, system_clock_scale, ssys, i2c, bus, ihist,
          adc, ahist, hw_error

vars == <<gptm, ghist, now, system_clock_scale, ssys, i2c, bus, ihist,
          adc, ahist, hw_error>>

(***************************************************************************)
(* Bit operations on naturals (C's &, |, ^, &~ on unsigned values).        *)
(***************************************************************************)
RECURSIVE BitAnd(_, _)
BitAnd(a, b) ==
    IF a = 0 \/ b = 0 THEN 0
    ELSE (a % 2) * (b % 2) + 2 * BitAnd(a \div 2, b \div 2)

BitOr(a, b) == a + b - BitAnd(a, b)

BitXor(a, b) == a + b - 2 * BitAnd(a, b)

BitClear(a, m) == a - BitAnd(a, m)

Shr(a, k) == a \div (2 ^ k)

(***************************************************************************)
(* Virtual time: an int64_t count of nanoseconds, kept as                  *)
(* <<seconds, nanoseconds>> with nanoseconds < 10^9.                       *)
(***************************************************************************)
NsPerSec == 1000000000

TimeAdd(t, d) ==
    LET n == t[2] + d IN <<t[1] + (n \div NsPerSec), n % NsPerSec>>

TimeLeq(a, b) == a[1] < b[1] \/ (a[1] = b[1] /\ a[2] <= b[2])

TimeLess(a, b) == TimeLeq(a, b) /\ a # b

TimeZero == <<0, 0>>

\* get_ticks_per_sec(): the vm_clock counts nanoseconds.
get_ticks_per_sec == NsPerSec

(***************************************************************************)
(* QEMUTimer: a one-shot schedule on the vm_clock.  qemu_mod_timer arms    *)
(* (or re-arms) it at an absolute deadline, qemu_del_timer cancels it; the *)
(* clock removes an expired timer from its list before it runs the         *)
(* callback.                                                               *)
(***************************************************************************)
qemu_new_timer_ns == [pending |-> FALSE, expire |-> TimeZero]

qemu_mod_timer(t, expire) == [pending |-> TRUE, expire |-> expire]

qemu_del_timer(t) == [t EXCEPT !.pending = FALSE]

(***************************************************************************)
(* System controller.                                                      *)
(***************************************************************************)
\* A uint32_t as two 16-bit halves.
W32(hi, lo) == [hi |-> hi, lo |-> lo]

DID0_VER_MASK_HI == 28672        \* 0x7000 (DID0_VER_MASK >> 16)
DID0_VER_0_HI == 0
DID0_VER_1_HI == 4096            \* 0x1000
DID0_CLASS_MASK_HI == 255        \* 0x00FF
DID0_CLASS_SANDSTORM_HI == 0
DID0_CLASS_FURY_HI == 1

RCC_CR_PLLON == 16777216         \* 0x01000000
RCC_CR_PLLRDY == 33554432        \* 0x02000000
RCC_CFGR_SW == 3
RCC_CFGR_SWS == 12

\* ssys_board_class: the class bits (did0 & DID0_CLASS_MASK) >> 16, or -1
\* for the hw_error outcome.
ssys_board_class(did0) ==
    LET ver == BitAnd(did0.hi, DID0_VER_MASK_HI)
        cls == BitAnd(did0.hi, DID0_CLASS_MASK_HI)
    IN  IF ver = DID0_VER_0_HI THEN DID0_CLASS_SANDSTORM_HI
        ELSE IF ver = DID0_VER_1_HI
                /\ cls \in {DID0_CLASS_SANDSTORM_HI, DID0_CLASS_FURY_HI}
             THEN cls
        ELSE -1

ssys_use_rcc2(s) == Shr(s.rcc2.hi, 15) % 2 = 1

\* The value ssys_calculate_system_clock stores in system_clock_scale.
\* (x >> 23) of a 32-bit word is (hi >> 7).
ssys_calculate_system_clock(s) ==
    IF ssys_use_rcc2(s)
    THEN 5 * ((Shr(s.rcc2.hi, 7) % 64) + 1)
    ELSE 5 * ((Shr(s.rcc.hi, 7) % 16) + 1)

\* Whether ssys_reset ends in hw_error: ssys_board_class does for a did0 of
\* unknown class.
ssys_reset_fatal(did0) == ssys_board_class(did0) = -1

\* g_malloc0 in stm32_sys_init, then ssys_reset.  When ssys_board_class
\* ends in hw_error, rcc is already assigned and rcc2 is still zero.
ssys_reset(did0) ==
    [did0 |-> did0,
     rcc |-> W32(1934, 15040),                       \* 0x078e3ac0
     rcc2 |-> IF ssys_reset_fatal(did0)
                 \/ ssys_board_class(did0) = DID0_CLASS_SANDSTORM_HI
              THEN W32(0, 0) ELSE W32(1920, 10256),  \* 0x07802810
     rcc_cr |-> 0, rcc_cfgr |-> 0, rcc_anything_else |-> 0]

\* ssys_write storing the clock-control value without marking the PLL ready.
ssys_write_state_pll_not_ready(s, offset, value) ==
    IF offset = 0 THEN [s EXCEPT !.rcc_cr = value]
    ELSE IF offset = 8 THEN
        LET v == BitClear(value, RCC_CFGR_SWS)
        IN  [s EXCEPT !.rcc_cfgr = BitOr(v, BitAnd(v, RCC_CFGR_SW) * 4)]
    ELSE [s EXCEPT !.rcc_anything_else = value]

\* ssys_write clearing the used field of the clock configuration without
\* pasting the selected one into it.
ssys_write_state_sws_cleared(s, offset, value) ==
    IF offset = 0 THEN
        [s EXCEPT !.rcc_cr =
            IF BitOr(value, RCC_CR_PLLON) # 0
            THEN BitOr(value, RCC_CR_PLLRDY) ELSE value]
    ELSE IF offset = 8 THEN
        [s EXCEPT !.rcc_cfgr = BitClear(value, RCC_CFGR_SWS)]
    ELSE [s EXCEPT !.rcc_anything_else = value]

\* ssys_write decoding the catch-all offsets as the run-mode clock
\* configuration rcc.
ssys_write_state_rcc(s, offset, value) ==
    IF offset = 0 THEN
        [s EXCEPT !.rcc_cr =
            IF BitOr(value, RCC_CR_PLLON) # 0
            THEN BitOr(value, RCC_CR_PLLRDY) ELSE value]
    ELSE IF offset = 8 THEN
        LET v == BitClear(value, RCC_CFGR_SWS)
        IN  [s EXCEPT !.rcc_cfgr = BitOr(v, BitAnd(v, RCC_CFGR_SW) * 4)]
    ELSE [s EXCEPT !.rcc = W32(Shr(value, 16), value % 65536),
                   !.rcc_anything_else = value]

\* The register state ssys_write leaves behind.
ssys_write_state(s, offset, value) ==
    IF offset = 0 THEN
        [s EXCEPT !.rcc_cr =
            IF BitOr(value, RCC_CR_PLLON) # 0
            THEN BitOr(value, RCC_CR_PLLRDY) ELSE value]
    ELSE IF offset = 8 THEN
        LET v == BitClear(value, RCC_CFGR_SWS)
        IN  [s EXCEPT !.rcc_cfgr = BitOr(v, BitAnd(v, RCC_CFGR_SW) * 4)]
    ELSE [s EXCEPT !.rcc_anything_else = value]

ssys_read(s, offset) ==
    IF offset = 0 THEN s.rcc_cr
    ELSE IF offset = 8 THEN s.rcc_cfgr
    ELSE s.rcc_anything_else

\* Loading a saved vmstate_stm32_sys section: of the modelled fields rcc is
\* loaded always and rcc2 from version 2 on (VMSTATE_UINT32_V(rcc2, .., 2));
\* rcc_cr, rcc_cfgr and rcc_anything_else are not part of the section.
vmstate_load_stm32_sys(s, version_id, rcc, rcc2) ==
    [s EXCEPT !.rcc = rcc,
              !.rcc2 = IF version_id >= 2 THEN rcc2 ELSE @]

\* Saving a vmstate_stm32_sys section (version 2): of the modelled fields only
\* rcc and rcc2 are listed; rcc_cr, rcc_cfgr and rcc_anything_else are not.
vmstate_save_stm32_sys(s) ==
    [version_id |-> 2, rcc |-> s.rcc, rcc2 |-> s.rcc2]

\* A saved section loaded into a freshly constructed controller
\* (stm32_sys_init: g_malloc0, ssys_reset) of the same board.
vmstate_restore_stm32_sys(did0, sec) ==
    vmstate_load_stm32_sys(ssys_reset(did0), sec.version_id, sec.rcc, sec.rcc2)

\* stm32_sys_post_load leaving the scale as it was before the load.
stm32_sys_post_load_keeps_scale(s, old_scale) == old_scale

\* stm32_sys_post_load: the scale is recomputed from the loaded registers.
stm32_sys_post_load(s, old_scale) == ssys_calculate_system_clock(s)

(***************************************************************************)
(* General purpose timer module.                                           *)
(* A gptm_state is a record; mode, load, match, prescale, match_prescale,  *)
(* tick and timer are indexed by the channel 0 (A) or 1 (B).  irq is the   *)
(* level last driven on the interrupt line.                                *)
(***************************************************************************)
Chan == 0 .. 1

\* The device as stm32_gptm_init leaves it (zeroed allocation, two timers).
stm32_gptm_init ==
    [config |-> 0, mode |-> [n \in Chan |-> 0], control |-> 0, state |-> 0,
     mask |-> 0, load |-> [n \in Chan |-> 0], match |-> [n \in Chan |-> 0],
     prescale |-> [n \in Chan |-> 0], match_prescale |-> [n \in Chan |-> 0],
     rtc |-> 0, tick |-> [n \in Chan |-> TimeZero],
     timer |-> [n \in Chan |-> qemu_new_timer_ns], irq |-> 0]

\* gptm_update_irq driving the line from the raw status alone.
gptm_update_irq_unmasked(s) ==
    [s EXCEPT !.irq = IF s.state # 0 THEN 1 ELSE 0]

gptm_update_irq(s) ==
    [s EXCEPT !.irq = IF BitAnd(s.state, s.mask) # 0 THEN 1 ELSE 0]

gptm_stop(s, n) == [s EXCEPT !.timer[n] = qemu_del_timer(@)]

\* gptm_reload and gptm_tick end in hw_error for a 16-bit mode other than PWM.
gptm_mode_unimplemented(s, n) == s.config \notin {0, 1} /\ s.mode[n] # 10

\* gptm_reload counting from the low half of the load only.
gptm_reload_low_count(s, n, reset, clock, scale) ==
    LET base == IF reset # 0 THEN clock ELSE s.tick[n]
        tick == IF s.config = 0 THEN TimeAdd(base, s.load[0] * scale)
                ELSE IF s.config = 1 THEN TimeAdd(base, get_ticks_per_sec)
                ELSE base
    IN  [s EXCEPT !.tick[n] = tick, !.timer[n] = qemu_mod_timer(@, tick)]

\* gptm_reload(s, n, reset) with qemu_get_clock_ns(vm_clock) = clock and
\* system_clock_scale = scale; defined when the mode is implemented.
gptm_reload(s, n, reset, clock, scale) ==
    LET base == IF reset # 0 THEN clock ELSE s.tick[n]
        count == BitOr(s.load[0], s.load[1] * 65536)
        tick == IF s.config = 0 THEN TimeAdd(base, count * scale)
                ELSE IF s.config = 1 THEN TimeAdd(base, get_ticks_per_sec)
                ELSE base
    IN  [s EXCEPT !.tick[n] = tick, !.timer[n] = qemu_mod_timer(@, tick)]

\* gptm_tick pulsing the trigger output after the one-shot/periodic handling.
gptm_tick_ops_pulse_last(s, n) ==
    <<<<"callback", n>>>>
    \o (IF s.config = 0 THEN
            <<<<"timeout">>>>
            \o (IF BitAnd(s.mode[0], 1) # 0 THEN <<<<"one-shot">>>>
                ELSE <<<<"reload">>>>)
            \o (IF BitAnd(s.control, 32) # 0 THEN <<<<"pulse">>>> ELSE <<>>)
        ELSE IF s.config = 1 THEN <<<<"rtc">>, <<"reload">>>>
        ELSE <<>>)
    \o <<<<"update_irq">>>>

\* The statements the callback gptm_tick for channel n executes, in the
\* order the code executes them; defined when the mode is implemented.
\*   "timeout"    s->state |= 1
\*   "pulse"      qemu_irq_pulse(s->trigger), taken when control bit 5 is set
\*   "one-shot"   s->control &= ~1, taken when bit 0 of mode A is set
\*   "reload"     gptm_reload(s, 0, 0)
\*   "rtc"        the RTC count, wrap and match status
\*   "update_irq" gptm_update_irq(s)
\* The conditions read config, control and mode, which no earlier statement
\* of the callback changes.
gptm_tick_ops(s, n) ==
    <<<<"callback", n>>>>
    \o (IF s.config = 0 THEN
            <<<<"timeout">>>>
            \o (IF BitAnd(s.control, 32) # 0 THEN <<<<"pulse">>>> ELSE <<>>)
            \o (IF BitAnd(s.mode[0], 1) # 0 THEN <<<<"one-shot">>>>
                ELSE <<<<"reload">>>>)
        ELSE IF s.config = 1 THEN <<<<"rtc">>, <<"reload">>>>
        ELSE <<>>)
    \o <<<<"update_irq">>>>

\* Pulses gptm_tick raises on the ADC trigger output.
gptm_tick_pulses(s) ==
    Len(SelectSeq(gptm_tick_ops(s, 0), LAMBDA op : op[1] = "pulse"))

\* gptm_tick with the RTC counter wrapping as soon as it reaches the match.
gptm_tick_wrap_at_match(s, n, clock, scale) ==
    IF s.config = 0 THEN
        LET s1 == [s EXCEPT !.state = BitOr(@, 1)]
            s2 == IF BitAnd(s1.mode[0], 1) # 0
                  THEN [s1 EXCEPT !.control = BitClear(@, 1)]
                  ELSE gptm_reload(s1, 0, 0, clock, scale)
        IN  gptm_update_irq(s2)
    ELSE IF s.config = 1 THEN
        LET match == BitOr(s.match[0], s.match[1] * 65536)
            rtc == IF s.rtc + 1 >= match THEN 0 ELSE s.rtc + 1
            s1 == [s EXCEPT !.rtc = rtc,
                            !.state = IF rtc = 0 THEN BitOr(@, 8) ELSE @]
        IN  gptm_update_irq(gptm_reload(s1, 0, 0, clock, scale))
    ELSE gptm_update_irq(s)

\* The effect of one statement of gptm_tick on the gptm_state.  The pulse
\* acts on the ADC alone.
gptm_tick_op(s, op, clock, scale) ==
    CASE op[1] = "timeout" -> [s EXCEPT !.state = BitOr(@, 1)]
      [] op[1] = "one-shot" -> [s EXCEPT !.control = BitClear(@, 1)]
      [] op[1] = "reload" -> gptm_reload(s, 0, 0, clock, scale)
      [] op[1] = "rtc" ->
            LET match == BitOr(s.match[0], s.match[1] * 65536)
                rtc == IF s.rtc + 1 > match THEN 0 ELSE s.rtc + 1
            IN  [s EXCEPT !.rtc = rtc,
                          !.state = IF rtc = 0 THEN BitOr(@, 8) ELSE @]
      [] op[1] = "update_irq" -> gptm_update_irq(s)
      [] OTHER -> s

RECURSIVE gptm_tick_run(_, _, _, _)
\* The statements `ops` executed from left to right.
gptm_tick_run(s, ops, clock, scale) ==
    IF ops = <<>> THEN s
    ELSE gptm_tick_run(gptm_tick_op(s, Head(ops), clock, scale), Tail(ops),
                       clock, scale)

\* The callback gptm_tick for channel n (the clock has already removed the
\* expired timer from its list); defined when the mode is implemented.
\* s->rtc++ cannot wrap at 2^32 within the model's bounds.
gptm_tick(s, n, clock, scale) ==
    gptm_tick_run(s, gptm_tick_ops(s, n), clock, scale)

\* The offsets gptm_read decodes to a return statement on every path.
GptmReadOffsets == {0, 4, 8, 12, 24, 28, 32, 36, 40, 44, 48, 52, 56, 60, 64, 68}

\* Whether gptm_read(offset) ends in hw_error: an offset outside the table,
\* TBR (0x4c), and TAR (0x48) unless control is exactly 1 (the TAR case
\* falls through to the TBR case).
gptm_read_fatal(s, offset) ==
    IF offset = 72 THEN s.control # 1
    ELSE offset \notin GptmReadOffsets

\* The value gptm_read(offset) returns when it returns.
gptm_read(s, offset) ==
    CASE offset = 0 -> s.config
      [] offset = 4 -> s.mode[0]
      [] offset = 8 -> s.mode[1]
      [] offset = 12 -> s.control
      [] offset = 24 -> s.mask
      [] offset = 28 -> s.state
      [] offset = 32 -> BitAnd(s.state, s.mask)
      [] offset = 36 -> 0
      [] offset = 40 ->
           BitOr(s.load[0], IF s.config < 4 THEN s.load[1] * 65536 ELSE 0)
      [] offset = 44 -> s.load[1]
      [] offset = 48 ->
           BitOr(s.match[0], IF s.config < 4 THEN s.match[1] * 65536 ELSE 0)
      [] offset = 52 -> s.match[1]
      [] offset = 56 -> s.prescale[0]
      [] offset = 60 -> s.prescale[1]
      [] offset = 64 -> s.match_prescale[0]
      [] offset = 68 -> s.match_prescale[1]
      [] offset = 72 -> s.rtc

GptmOffsets == {0, 4, 8, 12, 24, 36, 40, 44, 48, 52, 56, 60, 64, 68}

\* The CTL case of gptm_write up to and including the timer A half.
gptm_write_ctl_a(s, value, clock, scale) ==
    LET s1 == [s EXCEPT !.control = value]
    IN  IF BitAnd(BitXor(s.control, value), 1) # 0
        THEN IF BitAnd(value, 1) # 0
             THEN gptm_reload(s1, 0, 1, clock, scale)
             ELSE gptm_stop(s1, 0)
        ELSE s1

\* The timer B half of the CTL case.
gptm_write_ctl_b(s, oldval, value, clock, scale) ==
    IF BitAnd(BitXor(oldval, value), 256) # 0 /\ s.config >= 4
    THEN IF BitAnd(value, 256) # 0
         THEN gptm_reload(s, 1, 1, clock, scale)
         ELSE gptm_stop(s, 1)
    ELSE s

\* Whether gptm_write(offset, value) ends in hw_error.
gptm_write_fatal(s, offset, value) ==
    \/ offset \notin GptmOffsets
    \/ /\ offset = 12
       /\ \/ /\ BitAnd(BitXor(s.control, value), 1) # 0
             /\ BitAnd(value, 1) # 0
             /\ gptm_mode_unimplemented(s, 0)
          \/ /\ BitAnd(BitXor(s.control, value), 256) # 0
             /\ s.config >= 4
             /\ BitAnd(value, 256) # 0
             /\ gptm_mode_unimplemented(s, 1)

\* gptm_write with a write of TAILR re-arming a pending timer A.
gptm_write_load_rearms(s, offset, value, clock, scale) ==
    LET s1 ==
          CASE offset = 0 -> [s EXCEPT !.config = value]
            [] offset = 4 -> [s EXCEPT !.mode[0] = value]
            [] offset = 8 -> [s EXCEPT !.mode[1] = value]
            [] offset = 12 ->
                 gptm_write_ctl_b(gptm_write_ctl_a(s, value, clock, scale),
                                  s.control, value, clock, scale)
            [] offset = 24 -> gptm_update_irq([s EXCEPT !.mask = BitAnd(value, 119)])
            [] offset = 36 -> [s EXCEPT !.state = BitClear(@, value)]
            [] offset = 40 ->
                 LET l == [s EXCEPT !.load[0] = value % 65536,
                                    !.load[1] = IF s.config < 4
                                                THEN Shr(value, 16) ELSE @]
                 IN  IF l.timer[0].pending /\ l.config \in {0, 1}
                     THEN gptm_reload(l, 0, 1, clock, scale) ELSE l
            [] offset = 44 -> [s EXCEPT !.load[1] = value % 65536]
            [] offset = 48 ->
                 [s EXCEPT !.match[0] = value % 65536,
                           !.match[1] = IF s.config < 4 THEN Shr(value, 16) ELSE @]
            [] offset = 52 -> [s EXCEPT !.match[1] = Shr(value, 16)]
            [] offset = 56 -> [s EXCEPT !.prescale[0] = value]
            [] offset = 60 -> [s EXCEPT !.prescale[1] = value]
            [] offset = 64 -> [s EXCEPT !.match_prescale[0] = value]
            [] offset = 68 -> [s EXCEPT !.match_prescale[0] = value]
    IN  gptm_update_irq(s1)

\* gptm_write storing the low byte of an IMR write whole.
gptm_write_mask_unrestricted(s, offset, value, clock, scale) ==
    LET s1 ==
          CASE offset = 0 -> [s EXCEPT !.config = value]
            [] offset = 4 -> [s EXCEPT !.mode[0] = value]
            [] offset = 8 -> [s EXCEPT !.mode[1] = value]
            [] offset = 12 ->
                 gptm_write_ctl_b(gptm_write_ctl_a(s, value, clock, scale),
                                  s.control, value, clock, scale)
            [] offset = 24 -> gptm_update_irq([s EXCEPT !.mask = BitAnd(value, 255)])
            [] offset = 36 -> [s EXCEPT !.state = BitClear(@, value)]
            [] offset = 40 ->
                 [s EXCEPT !.load[0] = value % 65536,
                           !.load[1] = IF s.config < 4 THEN Shr(value, 16) ELSE @]
            [] offset = 44 -> [s EXCEPT !.load[1] = value % 65536]
            [] offset = 48 ->
                 [s EXCEPT !.match[0] = value % 65536,
                           !.match[1] = IF s.config < 4 THEN Shr(value, 16) ELSE @]
            [] offset = 52 -> [s EXCEPT !.match[1] = Shr(value, 16)]
            [] offset = 56 -> [s EXCEPT !.prescale[0] = value]
            [] offset = 60 -> [s EXCEPT !.prescale[1] = value]
            [] offset = 64 -> [s EXCEPT !.match_prescale[0] = value]
            [] offset = 68 -> [s EXCEPT !.match_prescale[0] = value]
    IN  gptm_update_irq(s1)

\* gptm_write(offset, value) when it returns normally.
gptm_write(s, offset, value, clock, scale) ==
    LET s1 ==
          CASE offset = 0 -> [s EXCEPT !.config = value]
            [] offset = 4 -> [s EXCEPT !.mode[0] = value]
            [] offset = 8 -> [s EXCEPT !.mode[1] = value]
            [] offset = 12 ->
                 gptm_write_ctl_b(gptm_write_ctl_a(s, value, clock, scale),
                                  s.control, value, clock, scale)
            [] offset = 24 -> gptm_update_irq([s EXCEPT !.mask = BitAnd(value, 119)])
            [] offset = 36 -> [s EXCEPT !.state = BitClear(@, value)]
            [] offset = 40 ->
                 [s EXCEPT !.load[0] = value % 65536,
                           !.load[1] = IF s.config < 4 THEN Shr(value, 16) ELSE @]
            [] offset = 44 -> [s EXCEPT !.load[1] = value % 65536]
            [] offset = 48 ->
                 [s EXCEPT !.match[0] = value % 65536,
                           !.match[1] = IF s.config < 4 THEN Shr(value, 16) ELSE @]
            [] offset = 52 -> [s EXCEPT !.match[1] = Shr(value, 16)]
            [] offset = 56 -> [s EXCEPT !.prescale[0] = value]
            [] offset = 60 -> [s EXCEPT !.prescale[1] = value]
            [] offset = 64 -> [s EXCEPT !.match_prescale[0] = value]
            [] offset = 68 -> [s EXCEPT !.match_prescale[0] = value]
    IN  gptm_update_irq(s1)

(***************************************************************************)
(* Analogue to digital converter.                                          *)
(***************************************************************************)
STELLARIS_ADC_EM_TIMER == 5
STELLARIS_ADC_FIFO_EMPTY == 256
STELLARIS_ADC_FIFO_FULL == 4096

Seq4 == 0 .. 3

\* uint32_t arithmetic on 16-bit halves (mod 2^32).
Add32(a, b) ==
    LET lo == a.lo + b.lo
    IN  W32((a.hi + b.hi + (lo \div 65536)) % 65536, lo % 65536)

\* a * k for 0 <= k < 2^15.
MulSmall32(a, k) ==
    LET lo == a.lo * k
    IN  W32((a.hi * k + (lo \div 65536)) % 65536, lo % 65536)

\* s->noise * 314159 + 1, with 314159 = 431 * 728 + 391.
NoiseStep(x) ==
    Add32(Add32(MulSmall32(MulSmall32(x, 431), 728), MulSmall32(x, 391)),
          W32(0, 1))

\* The device after stm32_adc_init (zeroed allocation, stm32_adc_reset).
stm32_adc_init ==
    [actss |-> 0, ris |-> 0, im |-> 0, emux |-> 0, ostat |-> 0, ustat |-> 0,
     sspri |-> 0, sac |-> 0,
     fifo |-> [n \in Seq4 |-> [state |-> STELLARIS_ADC_FIFO_EMPTY,
                               data |-> [i \in 0 .. 15 |-> 0]]],
     ssmux |-> [n \in Seq4 |-> 0], ssctl |-> [n \in Seq4 |-> 0],
     noise |-> W32(0, 0), irq |-> [n \in Seq4 |-> 0]]

FifoTail(st) == st % 16

FifoHead(st) == Shr(st, 4) % 16

\* The value stm32_adc_fifo_read returns.
stm32_adc_fifo_read_value(s, n) == s.fifo[n].data[FifoTail(s.fifo[n].state)]

\* The state stm32_adc_fifo_read leaves behind.
stm32_adc_fifo_read(s, n) ==
    LET st == s.fifo[n].state
        tail == FifoTail(st)
    IN  IF BitAnd(st, STELLARIS_ADC_FIFO_EMPTY) # 0
        THEN [s EXCEPT !.ustat = BitOr(@, 2 ^ n)]
        ELSE LET st1 == BitOr(BitClear(st, 15), (tail + 1) % 16)
                 st2 == BitClear(st1, STELLARIS_ADC_FIFO_FULL)
                 st3 == IF tail + 1 = FifoHead(st2)
                        THEN BitOr(st2, STELLARIS_ADC_FIFO_EMPTY) ELSE st2
             IN  [s EXCEPT !.fifo[n].state = st3]

\* stm32_adc_fifo_write storing into a full FIFO as well.
stm32_adc_fifo_write_overwrites(s, n, value) ==
    LET st == s.fifo[n].state
        head == FifoHead(st)
        head1 == (head + 1) % 16
        st1 == BitClear(st, STELLARIS_ADC_FIFO_EMPTY)
        st2 == BitOr(BitClear(st1, 240), head1 * 16)
        st3 == IF FifoTail(st2) = head1
               THEN BitOr(st2, STELLARIS_ADC_FIFO_FULL) ELSE st2
    IN  [s EXCEPT !.fifo[n].data[head] = value, !.fifo[n].state = st3]

stm32_adc_fifo_write(s, n, value) ==
    LET st == s.fifo[n].state
        head == FifoHead(st)
    IN  IF BitAnd(st, STELLARIS_ADC_FIFO_FULL) # 0
        THEN [s EXCEPT !.ostat = BitOr(@, 2 ^ n)]
        ELSE LET head1 == (head + 1) % 16
                 st1 == BitClear(st, STELLARIS_ADC_FIFO_EMPTY)
                 st2 == BitOr(BitClear(st1, 240), head1 * 16)
                 st3 == IF FifoTail(st2) = head1
                        THEN BitOr(st2, STELLARIS_ADC_FIFO_FULL) ELSE st2
             IN  [s EXCEPT !.fifo[n].data[head] = value, !.fifo[n].state = st3]

stm32_adc_update(s) ==
    [s EXCEPT !.irq = [n \in Seq4 |->
        IF BitAnd(BitAnd(s.ris, s.im), 2 ^ n) # 0 THEN 1 ELSE 0]]

\* Whether the loop body of stm32_adc_trigger samples sequencer n.
adc_trigger_selects(s, n) ==
    /\ BitAnd(s.actss, 2 ^ n) # 0
    /\ Shr(s.emux, n * 4) % 256 = STELLARIS_ADC_EM_TIMER

\* One iteration of the loop of stm32_adc_trigger.
adc_trigger_step(s, n) ==
    IF ~adc_trigger_selects(s, n) THEN s
    ELSE LET noise == NoiseStep(s.noise)
             s1 == stm32_adc_fifo_write([s EXCEPT !.noise = noise], n,
                                        512 + (noise.hi % 8))
         IN  stm32_adc_update([s1 EXCEPT !.ris = BitOr(@, 2 ^ n)])

stm32_adc_trigger(s) ==
    adc_trigger_step(adc_trigger_step(adc_trigger_step(
        adc_trigger_step(s, 0), 1), 2), 3)

\* Register decode shared by stm32_adc_read and stm32_adc_write.
AdcSeqOf(offset) == Shr(offset - 64, 5)

AdcInSeqWindow(offset) == offset >= 64 /\ offset < 192

AdcReadOffsets == {0, 4, 8, 12, 16, 20, 24, 32, 48}

AdcWriteOffsets == {0, 8, 12, 16, 20, 24, 32, 48}

\* Whether stm32_adc_read(offset) ends in hw_error.
stm32_adc_read_fatal(s, offset) ==
    /\ ~(AdcInSeqWindow(offset) /\ offset % 32 \in {0, 4, 8, 12})
    /\ offset \notin AdcReadOffsets

\* The value stm32_adc_read(offset) returns.
stm32_adc_read_value(s, offset) ==
    IF AdcInSeqWindow(offset) /\ offset % 32 \in {0, 4, 8, 12} THEN
        LET n == AdcSeqOf(offset)
        IN  CASE offset % 32 = 0 -> s.ssmux[n]
              [] offset % 32 = 4 -> s.ssctl[n]
              [] offset % 32 = 8 -> stm32_adc_fifo_read_value(s, n)
              [] offset % 32 = 12 -> s.fifo[n].state
    ELSE CASE offset = 0 -> s.actss
           [] offset = 4 -> s.ris
           [] offset = 8 -> s.im
           [] offset = 12 -> BitAnd(s.ris, s.im)
           [] offset = 16 -> s.ostat
           [] offset = 20 -> s.emux
           [] offset = 24 -> s.ustat
           [] offset = 32 -> s.sspri
           [] offset = 48 -> s.sac

\* The state stm32_adc_read(offset) leaves behind.
stm32_adc_read(s, offset) ==
    IF AdcInSeqWindow(offset) /\ offset % 32 = 8
    THEN stm32_adc_fifo_read(s, AdcSeqOf(offset))
    ELSE s

\* Whether stm32_adc_write(offset, value) ends in hw_error.
stm32_adc_write_fatal(s, offset, value) ==
    IF AdcInSeqWindow(offset) /\ offset % 32 \in {0, 4}
    THEN offset % 32 = 4 /\ value # 6
    ELSE offset \notin AdcWriteOffsets

\* stm32_adc_write(offset, value) when it returns normally.
stm32_adc_write(s, offset, value) ==
    IF AdcInSeqWindow(offset) /\ offset % 32 \in {0, 4} THEN
        LET n == AdcSeqOf(offset)
        IN  IF offset % 32 = 0
            THEN [s EXCEPT !.ssmux[n] = BitAnd(value, 858993459)]
            ELSE [s EXCEPT !.ssctl[n] = value]
    ELSE stm32_adc_update(
           CASE offset = 0 -> [s EXCEPT !.actss = value % 16]
             [] offset = 8 -> [s EXCEPT !.im = value]
             [] offset = 12 -> [s EXCEPT !.ris = BitClear(@, value)]
             [] offset = 16 -> [s EXCEPT !.ostat = BitClear(@, value)]
             [] offset = 20 -> [s EXCEPT !.emux = value]
             [] offset = 24 -> [s EXCEPT !.ustat = BitClear(@, value)]
             [] offset = 32 -> [s EXCEPT !.sspri = value]
             [] offset = 48 -> [s EXCEPT !.sac = value])

(***************************************************************************)
(* I2C master controller.                                                  *)
(* The bus is the shared-bus collaborator: holder is the master that has   *)
(* acquired it (the controller, or another master on the bus), or NoHolder *)
(* when it is idle.  An acquire fails (arbitration loss) exactly when      *)
(* another master holds the bus.                                           *)
(***************************************************************************)
STELLARIS_I2C_MCS_BUSY == 1
STELLARIS_I2C_MCS_ERROR == 2
STELLARIS_I2C_MCS_ADRACK == 4
STELLARIS_I2C_MCS_DATACK == 8
STELLARIS_I2C_MCS_ARBLST == 16
STELLARIS_I2C_MCS_IDLE == 32
STELLARIS_I2C_MCS_BUSBSY == 64

NoHolder == -1

\* The masters on the bus: the stm32 controller and one other.
Controller == 0

OtherMaster == 1

i2c_init_bus == [holder |-> NoHolder]

\* i2c_start_transfer by master m: nonzero when the acquire fails.
i2c_start_transfer_fails(b, m) == b.holder \notin {NoHolder, m}

i2c_start_transfer(b, m) ==
    IF i2c_start_transfer_fails(b, m) THEN b ELSE [b EXCEPT !.holder = m]

i2c_bus_busy(b) == b.holder # NoHolder

i2c_end_transfer(b) == [b EXCEPT !.holder = NoHolder]

\* stm32_i2c_reset on a controller that does not hold the bus.
stm32_i2c_reset ==
    [msa |-> 0, mcs |-> 0, mdr |-> 0, mtpr |-> 1, mimr |-> 0, mris |-> 0,
     mcr |-> 0, irq |-> 0]

stm32_i2c_update(s) ==
    [s EXCEPT !.irq = IF BitAnd(s.mris, s.mimr) # 0 THEN 1 ELSE 0]

\* The offsets stm32_i2c_read decodes.
I2cReadOffsets == {0, 4, 8, 12, 16, 20, 24, 32}

\* Whether stm32_i2c_read(offset) ends in hw_error (the default case).
stm32_i2c_read_fatal(s, offset) == offset \notin I2cReadOffsets

stm32_i2c_read(s, offset) ==
    CASE offset = 0 -> s.msa
      [] offset = 4 -> BitOr(s.mcs, STELLARIS_I2C_MCS_IDLE)
      [] offset = 8 -> s.mdr
      [] offset = 12 -> s.mtpr
      [] offset = 16 -> s.mimr
      [] offset = 20 -> s.mris
      [] offset = 24 -> BitAnd(s.mris, s.mimr)
      [] offset = 32 -> s.mcr
      [] OTHER -> 0

I2cWriteOffsets == {0, 4, 8, 12, 16, 28, 32}

\* Whether stm32_i2c_write(offset, value) ends in hw_error.
stm32_i2c_write_fatal(s, offset, value) ==
    \/ offset \notin I2cWriteOffsets
    \/ offset = 32 /\ (BitAnd(value, 1) # 0 \/ BitAnd(value, 32) # 0)

\* A step of the MCS case yields the controller, the bus and the bus
\* operations made so far, in order.
I2cStep(s, b, ops) == [s |-> s, bus |-> b, ops |-> ops]

\* The start step marking the controller bus-busy whether or not the
\* acquire succeeded.
stm32_i2c_mcs_start_marks_busy(s, b, value) ==
    IF BitAnd(value, 2) # 0 /\ BitAnd(s.mcs, STELLARIS_I2C_MCS_BUSBSY) = 0
    THEN I2cStep(
           [s EXCEPT !.mcs =
              IF i2c_start_transfer_fails(b, Controller)
              THEN BitOr(BitOr(@, STELLARIS_I2C_MCS_ARBLST),
                         STELLARIS_I2C_MCS_BUSBSY)
              ELSE BitOr(BitClear(@, STELLARIS_I2C_MCS_ARBLST),
                         STELLARIS_I2C_MCS_BUSBSY)],
           i2c_start_transfer(b, Controller),
           <<<<"start", Shr(s.msa, 1), s.msa % 2>>>>)
    ELSE I2cStep(s, b, <<>>)

\* "Grab the bus if this is starting a transfer."
stm32_i2c_mcs_start(s, b, value) ==
    IF BitAnd(value, 2) # 0 /\ BitAnd(s.mcs, STELLARIS_I2C_MCS_BUSBSY) = 0
    THEN I2cStep(
           [s EXCEPT !.mcs =
              IF i2c_start_transfer_fails(b, Controller)
              THEN BitOr(@, STELLARIS_I2C_MCS_ARBLST)
              ELSE BitOr(BitClear(@, STELLARIS_I2C_MCS_ARBLST),
                         STELLARIS_I2C_MCS_BUSBSY)],
           i2c_start_transfer(b, Controller),
           <<<<"start", Shr(s.msa, 1), s.msa % 2>>>>)
    ELSE I2cStep(s, b, <<>>)

\* "Transfer a byte": rx is what i2c_recv returns.
stm32_i2c_mcs_run(r, value, rx) ==
    IF BitAnd(value, 1) = 0 THEN r
    ELSE IF r.s.msa % 2 = 1
         THEN I2cStep([r.s EXCEPT !.mdr = rx % 256, !.mris = BitOr(@, 1)],
                      r.bus, Append(r.ops, <<"recv", rx>>))
         ELSE I2cStep([r.s EXCEPT !.mris = BitOr(@, 1)],
                      r.bus, Append(r.ops, <<"send", r.s.mdr>>))

\* The finish step clearing bus-busy without releasing the bus.
stm32_i2c_mcs_finish_keeps_bus(r, value) ==
    IF BitAnd(value, 4) = 0 THEN r
    ELSE I2cStep([r.s EXCEPT !.mcs = BitClear(@, STELLARIS_I2C_MCS_BUSBSY)],
                 r.bus, r.ops)

\* The finish step releasing the bus but leaving bus-busy set.
stm32_i2c_mcs_finish_keeps_busy(r, value) ==
    IF BitAnd(value, 4) = 0 THEN r
    ELSE I2cStep(r.s, i2c_end_transfer(r.bus), Append(r.ops, <<"end">>))

\* "Finish transfer."
stm32_i2c_mcs_finish(r, value) ==
    IF BitAnd(value, 4) = 0 THEN r
    ELSE I2cStep([r.s EXCEPT !.mcs = BitClear(@, STELLARIS_I2C_MCS_BUSBSY)],
                 i2c_end_transfer(r.bus), Append(r.ops, <<"end">>))

\* The MCS case flagging the error but going on to the run and finish steps.
stm32_i2c_write_mcs_no_abort(s, b, value, rx) ==
    IF BitAnd(s.mcr, 16) = 0 THEN I2cStep(s, b, <<>>)
    ELSE
      LET r == stm32_i2c_mcs_start(s, b, value)
          held == i2c_bus_busy(r.bus)
                  /\ BitAnd(r.s.mcs, STELLARIS_I2C_MCS_BUSBSY) # 0
      IN  stm32_i2c_mcs_finish(
            stm32_i2c_mcs_run(
              [r EXCEPT !.s.mcs =
                 IF held THEN BitClear(@, STELLARIS_I2C_MCS_ERROR)
                 ELSE BitOr(@, STELLARIS_I2C_MCS_ERROR)],
              value, rx),
            value)

\* The MCS case without the test of the enable bit of mcr.
stm32_i2c_write_mcs_ungated(s, b, value, rx) ==
    LET r == stm32_i2c_mcs_start(s, b, value)
    IN  IF ~i2c_bus_busy(r.bus)
           \/ BitAnd(r.s.mcs, STELLARIS_I2C_MCS_BUSBSY) = 0
        THEN [r EXCEPT !.s.mcs = BitOr(@, STELLARIS_I2C_MCS_ERROR)]
        ELSE stm32_i2c_mcs_finish(
               stm32_i2c_mcs_run(
                 [r EXCEPT !.s.mcs = BitClear(@, STELLARIS_I2C_MCS_ERROR)],
                 value, rx),
               value)

\* The MCS case of stm32_i2c_write on bus b.
stm32_i2c_write_mcs(s, b, value, rx) ==
    IF BitAnd(s.mcr, 16) = 0 THEN I2cStep(s, b, <<>>)
    ELSE
      LET r == stm32_i2c_mcs_start(s, b, value)
      IN  IF ~i2c_bus_busy(r.bus)
             \/ BitAnd(r.s.mcs, STELLARIS_I2C_MCS_BUSBSY) = 0
          THEN [r EXCEPT !.s.mcs = BitOr(@, STELLARIS_I2C_MCS_ERROR)]
          ELSE stm32_i2c_mcs_finish(
                 stm32_i2c_mcs_run(
                   [r EXCEPT !.s.mcs = BitClear(@, STELLARIS_I2C_MCS_ERROR)],
                   value, rx),
                 value)

\* stm32_i2c_write storing the payload of a MIMR write.
stm32_i2c_write_mimr_payload(s, b, offset, value, rx) ==
    LET r == CASE offset = 0 -> I2cStep([s EXCEPT !.msa = value % 256], b, <<>>)
               [] offset = 4 -> stm32_i2c_write_mcs(s, b, value, rx)
               [] offset = 8 -> I2cStep([s EXCEPT !.mdr = value % 256], b, <<>>)
               [] offset = 12 -> I2cStep([s EXCEPT !.mtpr = value % 256], b, <<>>)
               [] offset = 16 -> I2cStep([s EXCEPT !.mimr = value], b, <<>>)
               [] offset = 28 ->
                    I2cStep([s EXCEPT !.mris = BitClear(@, value)], b, <<>>)
               [] offset = 32 ->
                    I2cStep([s EXCEPT !.mcr = BitAnd(value, 49)], b, <<>>)
    IN  [r EXCEPT !.s = stm32_i2c_update(@)]

\* stm32_i2c_write(offset, value) when it returns normally.
stm32_i2c_write(s, b, offset, value, rx) ==
    LET r == CASE offset = 0 -> I2cStep([s EXCEPT !.msa = value % 256], b, <<>>)
               [] offset = 4 -> stm32_i2c_write_mcs(s, b, value, rx)
               [] offset = 8 -> I2cStep([s EXCEPT !.mdr = value % 256], b, <<>>)
               [] offset = 12 -> I2cStep([s EXCEPT !.mtpr = value % 256], b, <<>>)
               [] offset = 16 -> I2cStep([s EXCEPT !.mimr = 1], b, <<>>)
               [] offset = 28 ->
                    I2cStep([s EXCEPT !.mris = BitClear(@, value)], b, <<>>)
               [] offset = 32 ->
                    I2cStep([s EXCEPT !.mcr = BitAnd(value, 49)], b, <<>>)
    IN  [r EXCEPT !.s = stm32_i2c_update(@)]

(***************************************************************************)
(* History of the current enable period of timer A, kept for the claims:   *)
(* valid  - timer A was enabled by a 0->1 write of control bit 0 and since *)
(*          then no control write was made and config, mode A, load, match *)
(*          and the clock scale kept their values;                         *)
(* t0     - the virtual time of that enable;                               *)
(* kA, kB - callbacks of timer A and of timer B run since;                 *)
(* rtc0   - rtc at the enable;                                             *)
(* seen, set - whether bit 3 (RTC match) of the raw status was set when    *)
(*          the latest callback began, and when it returned;               *)
(* fired  - callbacks run since the start of the behaviour.                *)
(* en     - <<config, mode A, load A, load B>> as they were when timer A  *)
(*          was enabled, kept until the next control write or until a      *)
(*          callback clears the enable bit; <<>> otherwise.                *)
(* ops    - the statements the latest callback executed, in their order;   *)
(*          <<>> after a write of a timer register and whenever the enable *)
(*          period is forgotten.                                           *)
(***************************************************************************)
NoRun == [valid |-> FALSE, t0 |-> TimeZero, kA |-> 0, kB |-> 0, rtc0 |-> 0,
          seen |-> FALSE, set |-> FALSE, fired |-> 0, en |-> <<>>,
          ops |-> <<>>]

\* The configuration of the enable period has changed.
Forget(h) == [NoRun EXCEPT !.fired = h.fired, !.en = h.en]

HistAfterWrite(h, s, s1, offset, value, clock) ==
    IF offset = 12 THEN
        IF BitAnd(s.control, 1) = 0 /\ BitAnd(value, 1) = 1
        THEN [valid |-> TRUE, t0 |-> clock, kA |-> 0, kB |-> 0,
              rtc0 |-> s.rtc, seen |-> FALSE, set |-> FALSE, fired |-> h.fired,
              en |-> <<s.config, s.mode[0], s.load[0], s.load[1]>>,
              ops |-> <<>>]
        ELSE [Forget(h) EXCEPT !.en = <<>>]
    ELSE IF h.valid /\ s1.config = s.config /\ s1.mode[0] = s.mode[0]
            /\ s1.load = s.load /\ s1.match = s.match
         THEN [h EXCEPT !.ops = <<>>] ELSE Forget(h)

HistAfterTick(h, s, s1, n) ==
    LET en == IF BitAnd(s1.control, 1) # 0 THEN h.en ELSE <<>>
    IN  IF h.valid
        THEN [h EXCEPT !.kA = IF n = 0 THEN @ + 1 ELSE @,
                       !.kB = IF n = 1 THEN @ + 1 ELSE @,
                       !.seen = BitAnd(s.state, 8) # 0,
                       !.set = BitAnd(s1.state, 8) # 0,
                       !.fired = @ + 1,
                       !.en = en,
                       !.ops = gptm_tick_ops(s, n)]
        ELSE [h EXCEPT !.fired = @ + 1, !.en = en,
                       !.ops = gptm_tick_ops(s, n)]

\* Callbacks run in one behaviour (a bound of the model).
MaxFires == 3

\* By how much a callback may be delivered late (ns; an input of the model).
Late == 3

(***************************************************************************)
(* I2C actions.  ihist records the latest step on the bus: op is "write"   *)
(* for a register write of the controller (with its offset, its value and  *)
(* the bus operations it made, in order), "read" for a register read (with *)
(* its offset and the value returned) and "bus" for a step of the other    *)
(* master.                                                                 *)
(***************************************************************************)
NoI2cWrite == [op |-> "init", offset |-> -1, value |-> 0, ops |-> <<>>]

\* A guest write to register `offset` of the controller; rx is the byte the
\* addressed device would return to a receive.
I2cWrite(offset, value, rx) ==
    /\ ~hw_error
    /\ IF stm32_i2c_write_fatal(i2c, offset, value)
       THEN /\ hw_error' = TRUE
            /\ UNCHANGED <<i2c, bus, ihist>>
       ELSE LET r == stm32_i2c_write(i2c, bus, offset, value, rx)
            IN  /\ i2c' = r.s
                /\ bus' = r.bus
                /\ ihist' = [op |-> "write", offset |-> offset,
                             value |-> value, ops |-> r.ops]
                /\ UNCHANGED hw_error
    /\ UNCHANGED <<gptm, ghist, now, system_clock_scale, ssys, adc, ahist>>

\* A guest read of register `offset` of the controller: it changes no
\* register and ends in hw_error at an offset the decode does not know.
I2cRead(offset) ==
    /\ ~hw_error
    /\ hw_error' = stm32_i2c_read_fatal(i2c, offset)
    /\ ihist' = [op |-> "read", offset |-> offset,
                 value |-> stm32_i2c_read(i2c, offset), ops |-> <<>>]
    /\ UNCHANGED <<i2c, bus, gptm, ghist, now, system_clock_scale, ssys, adc,
                   ahist>>

\* The other master starts a transfer: it acquires the bus unless the
\* controller holds it, in which case its acquire fails.
OtherMasterStart ==
    /\ ~hw_error
    /\ bus' = i2c_start_transfer(bus, OtherMaster)
    /\ ihist' = [NoI2cWrite EXCEPT !.op = "bus"]
    /\ UNCHANGED <<i2c, gptm, ghist, now, system_clock_scale, ssys, adc, ahist,
                   hw_error>>

\* The other master releases the bus it holds.
OtherMasterEnd ==
    /\ ~hw_error
    /\ bus.holder = OtherMaster
    /\ bus' = i2c_end_transfer(bus)
    /\ ihist' = [NoI2cWrite EXCEPT !.op = "bus"]
    /\ UNCHANGED <<i2c, gptm, ghist, now, system_clock_scale, ssys, adc, ahist,
                   hw_error>>

(***************************************************************************)
(* ADC actions.  ahist is the history kept for the claims:                 *)
(* op, n   - the latest handler ("trigger", "read", "write") and, for a    *)
(*           read of a sequencer FIFO, the sequencer (else -1);            *)
(* wr[n]   - stm32_adc_fifo_write calls for sequencer n since its state    *)
(*           word last showed EMPTY, capped at 17, or -1 once a read has   *)
(*           intervened;                                                   *)
(* q[n]    - the samples stored for sequencer n (a trigger that changed    *)
(*           its FIFO state word) and not yet read, oldest first;          *)
(* samples - stm32_adc_fifo_write calls made so far.                       *)
(***************************************************************************)
AdcHistInit ==
    [op |-> "init", n |-> -1, wr |-> [n \in Seq4 |-> 0],
     q |-> [n \in Seq4 |-> <<>>], samples |-> 0]

\* The sample the trigger offers sequencer n, or -1 when it is not selected.
AdcTriggerSample(s, n) ==
    LET before == CASE n = 0 -> s
                    [] n = 1 -> adc_trigger_step(s, 0)
                    [] n = 2 -> adc_trigger_step(adc_trigger_step(s, 0), 1)
                    [] n = 3 -> adc_trigger_step(adc_trigger_step(
                                    adc_trigger_step(s, 0), 1), 2)
    IN  IF adc_trigger_selects(s, n)
        THEN 512 + (NoiseStep(before.noise).hi % 8) ELSE -1

Min(a, b) == IF a < b THEN a ELSE b

\* fifo_write calls allowed in one behaviour (a bound of the model).
MaxSamples == 18

\* The history after stm32_adc_trigger has taken the ADC from s to s1.
AdcHistAfterTrigger(h, s, s1) ==
    [op |-> "trigger", n |-> -1,
     wr |-> [n \in Seq4 |->
               IF adc_trigger_selects(s, n) /\ h.wr[n] >= 0
               THEN Min(h.wr[n] + 1, 17) ELSE h.wr[n]],
     q |-> [n \in Seq4 |->
              IF adc_trigger_selects(s, n) /\ s1.fifo[n].state # s.fifo[n].state
              THEN Append(h.q[n], AdcTriggerSample(s, n))
              ELSE h.q[n]],
     samples |-> h.samples
                 + Cardinality({n \in Seq4 : adc_trigger_selects(s, n)})]

\* The trigger line changes level: stm32_adc_trigger runs.
AdcTrigger ==
    /\ ~hw_error
    /\ ahist.samples < MaxSamples
    /\ adc' = stm32_adc_trigger(adc)
    /\ ahist' = AdcHistAfterTrigger(ahist, adc, adc')
    /\ UNCHANGED <<gptm, ghist, now, system_clock_scale, ssys, i2c, bus, ihist,
                   hw_error>>

\* A guest read of ADC register `offset`.
AdcRead(offset) ==
    /\ ~hw_error
    /\ IF stm32_adc_read_fatal(adc, offset)
       THEN /\ hw_error' = TRUE
            /\ UNCHANGED <<adc, ahist>>
       ELSE /\ adc' = stm32_adc_read(adc, offset)
            /\ LET fr == AdcInSeqWindow(offset) /\ offset % 32 = 8
                   m == IF fr THEN AdcSeqOf(offset) ELSE -1
               IN  ahist' =
                     [ahist EXCEPT
                        !.op = "read", !.n = m,
                        !.wr = [n \in Seq4 |->
                                  IF n # m THEN ahist.wr[n]
                                  ELSE IF BitAnd(adc'.fifo[n].state,
                                                 STELLARIS_ADC_FIFO_EMPTY) # 0
                                       THEN 0 ELSE -1],
                        !.q = [n \in Seq4 |->
                                 IF n = m /\ ahist.q[n] # <<>>
                                 THEN Tail(ahist.q[n]) ELSE ahist.q[n]]]
            /\ UNCHANGED hw_error
    /\ UNCHANGED <<gptm, ghist, now, system_clock_scale, ssys, i2c, bus, ihist>>

\* A guest write to ADC register `offset`.
AdcWrite(offset, value) ==
    /\ ~hw_error
    /\ IF stm32_adc_write_fatal(adc, offset, value)
       THEN /\ hw_error' = TRUE
            /\ UNCHANGED <<adc, ahist>>
       ELSE /\ adc' = stm32_adc_write(adc, offset, value)
            /\ ahist' = [ahist EXCEPT !.op = "write", !.n = -1]
            /\ UNCHANGED hw_error
    /\ UNCHANGED <<gptm, ghist, now, system_clock_scale, ssys, i2c, bus, ihist>>

(***************************************************************************)
(* Actions.                                                                *)
(***************************************************************************)
OtherThanGptm == <<i2c, bus, ihist, adc, ahist>>

\* qemu_irq_pulse on the trigger output, which the board connects to the
\* ADC: the line is raised and lowered, and stm32_adc_trigger runs on each
\* change of level.
qemu_irq_pulse(a) == stm32_adc_trigger(stm32_adc_trigger(a))

\* A guest write of `value` to GPTM register `offset`.
GptmWrite(offset, value) ==
    /\ ~hw_error
    /\ IF gptm_write_fatal(gptm, offset, value)
       THEN /\ hw_error' = TRUE
            /\ UNCHANGED <<gptm, ghist>>
       ELSE /\ gptm' = gptm_write(gptm, offset, value, now, system_clock_scale)
            /\ ghist' = HistAfterWrite(ghist, gptm, gptm', offset, value, now)
            /\ UNCHANGED hw_error
    /\ UNCHANGED <<now, system_clock_scale, ssys, OtherThanGptm>>

\* A guest read of GPTM register `offset`: gptm_read assigns nothing.
GptmRead(offset) ==
    /\ ~hw_error
    /\ hw_error' = gptm_read_fatal(gptm, offset)
    /\ UNCHANGED <<gptm, ghist, now, system_clock_scale, ssys, OtherThanGptm>>

\* The vm_clock runs the callback of channel n's expired timer.
GptmTick(n) ==
    /\ ~hw_error
    /\ gptm.timer[n].pending
    /\ TimeLeq(gptm.timer[n].expire, now)
    /\ ghist.fired < MaxFires
    /\ LET s == [gptm EXCEPT !.timer[n].pending = FALSE]
       IN  IF gptm_mode_unimplemented(s, n)
           THEN /\ hw_error' = TRUE
                /\ UNCHANGED <<gptm, ghist>>
           ELSE /\ gptm' = gptm_tick(s, n, now, system_clock_scale)
                /\ ghist' = HistAfterTick(ghist, gptm, gptm', n)
                /\ UNCHANGED hw_error
    /\ IF ~gptm_mode_unimplemented(gptm, n) /\ gptm_tick_pulses(gptm) = 1
       THEN /\ adc' = qemu_irq_pulse(adc)
            /\ ahist' = AdcHistAfterTrigger(
                          AdcHistAfterTrigger(ahist, adc, stm32_adc_trigger(adc)),
                          stm32_adc_trigger(adc), adc')
       ELSE UNCHANGED <<adc, ahist>>
    /\ UNCHANGED <<now, system_clock_scale, ssys, i2c, bus, ihist>>

\* Virtual time advances to a pending deadline still ahead, or Late past it.
Advance(maxTime) ==
    /\ ~hw_error
    /\ \E n \in Chan, d \in {0, Late} :
          /\ gptm.timer[n].pending
          /\ TimeLess(now, gptm.timer[n].expire)
          /\ TimeLeq(TimeAdd(gptm.timer[n].expire, d), maxTime)
          /\ now' = TimeAdd(gptm.timer[n].expire, d)
    /\ UNCHANGED <<gptm, ghist, system_clock_scale, ssys, OtherThanGptm, hw_error>>

\* A saved vmstate_stm32_sys section is loaded (rcc, rcc2), then post_load.
SsysLoad(version_id, rcc, rcc2) ==
    /\ ~hw_error
    /\ ssys' = vmstate_load_stm32_sys(ssys, version_id, rcc, rcc2)
    /\ system_clock_scale' = stm32_sys_post_load(ssys', system_clock_scale)
    /\ ghist' = IF system_clock_scale' = system_clock_scale
                THEN ghist ELSE Forget(ghist)
    /\ UNCHANGED <<gptm, now, OtherThanGptm, hw_error>>

\* A guest write to an SSYS register.
SsysWrite(offset, value) ==
    /\ ~hw_error
    /\ ssys' = ssys_write_state(ssys, offset, value)
    /\ UNCHANGED <<gptm, ghist, now, system_clock_scale, OtherThanGptm, hw_error>>

(***************************************************************************)
(* Initial state: every device as its init function leaves it, the system  *)
(* controller reset for board identity did0, the virtual clock at 0.       *)
(***************************************************************************)
\* stm32_boards[0].did0.
BoardDid0 == W32(0, 0)

\* stm32_init for a board of identity did0.  For a did0 of unknown class
\* ssys_reset ends in hw_error before it computes the scale, which is
\* still the zero of the global.
InitBoard(did0) ==
    /\ ssys = ssys_reset(did0)
    /\ system_clock_scale = IF ssys_reset_fatal(did0) THEN 0
                            ELSE ssys_calculate_system_clock(ssys_reset(did0))
    /\ gptm = stm32_gptm_init
    /\ ghist = NoRun
    /\ now = TimeZero
    /\ i2c = stm32_i2c_reset
    /\ bus = i2c_init_bus
    /\ ihist = NoI2cWrite
    /\ adc = stm32_adc_init
    /\ ahist = AdcHistInit
    /\ hw_error = ssys_reset_fatal(did0)

Init == InitBoard(BoardDid0)

(***************************************************************************)
(* Specifications of the timer module.  Each draws the guest's register    *)
(* writes from a set W of <<offset, value>> pairs and the restored         *)
(* <<version, rcc, rcc2>> from a set R, and lets virtual time run up to    *)
(* maxTime.                                                                *)
(***************************************************************************)
GptmNext(W, R, maxTime) ==
    \/ \E w \in W : GptmWrite(w[1], w[2])
    \/ \E n \in Chan : GptmTick(n)
    \/ Advance(maxTime)
    \/ \E l \in R : SsysLoad(l[1], l[2], l[3])

\* The saved reset state of the board (scale 80), and the same with
\* rcc2 = 0xcf800000 (rcc2 in use, divisor field 31: scale 160).
ScaleLoads ==
    {<<2, W32(1934, 15040), W32(0, 0)>>,
     <<2, W32(1934, 15040), W32(53120, 0)>>}

\* The saved reset state of the board.
FrameLoads == {<<2, W32(1934, 15040), W32(0, 0)>>}

\* How far the countdown specification lets virtual time run (ns).
MaxNs == 170

\* SpecEnable: every kind of configuration below 4 (countdown, RTC, 16-bit),
\* mode A periodic or PWM, a load with and without a high half.
EnableWrites ==
    {<<0, 0>>, <<0, 1>>, <<0, 2>>,
     <<4, 0>>, <<4, 10>>,
     <<40, 1>>, <<40, 65537>>,
     <<12, 0>>, <<12, 1>>}

SpecEnable == Init /\ [][GptmNext(EnableWrites, ScaleLoads, <<0, MaxNs>>)]_vars

\* Spec: countdown and 16-bit configurations, one-shot and periodic mode
\* A, PWM mode B, both enable bits.
FireWrites ==
    {<<0, 0>>, <<0, 4>>,
     <<4, 0>>, <<4, 1>>,
     <<8, 10>>,
     <<40, 1>>,
     <<12, 0>>, <<12, 1>>, <<12, 256>>, <<12, 257>>}

Spec == Init /\ [][GptmNext(FireWrites, ScaleLoads, <<0, MaxNs>>)]_vars

(***************************************************************************)
(* The first deadline after an enable.                                     *)
(***************************************************************************)
\* The combined 32-bit load of timer A.
CombinedLoad(s) == BitOr(s.load[0], s.load[1] * 65536)

\* Timer A was enabled and no callback has run since.
FirstDeadlinePending == ghist.valid /\ ghist.kA = 0 /\ ghist.kB = 0

\* C1 as stated: for every config below 4, the deadline scheduled by a 0->1
\* write of control bit 0 at time t0 is t0 + L * system_clock_scale.
EnableDeadlineAnyConfig ==
    (FirstDeadlinePending /\ gptm.config < 4)
    => /\ gptm.timer[0].pending
       /\ gptm.timer[0].expire
            = TimeAdd(ghist.t0, CombinedLoad(gptm) * system_clock_scale)

\* C1, amended: the deadline scheduled by a 0->1 write of control bit 0 at
\* time t0 is t0 + L * system_clock_scale when config = 0, t0 + one second
\* when config = 1 (whatever L is) and t0 itself for any other config (which
\* is accepted only with mode A = 0xA).
EnableDeadline ==
    FirstDeadlinePending
    => /\ gptm.timer[0].pending
       /\ gptm.timer[0].expire =
            IF gptm.config = 0
            THEN TimeAdd(ghist.t0, CombinedLoad(gptm) * system_clock_scale)
            ELSE IF gptm.config = 1 THEN TimeAdd(ghist.t0, NsPerSec)
            ELSE ghist.t0
       /\ gptm.config \notin {0, 1} => gptm.mode[0] = 10

\* Countdown timer A enabled at a time other than 0 with a load that has a
\* high half, under the restored clock scale.
EnableDeadlineWitness ==
    /\ FirstDeadlinePending
    /\ gptm.config = 0
    /\ gptm.load[1] = 1
    /\ ghist.t0 # TimeZero
    /\ system_clock_scale = 160
    /\ gptm.timer[0].expire = TimeAdd(ghist.t0, 65537 * 160)

(***************************************************************************)
(* One-shot and periodic countdown, and cancellation.                      *)
(***************************************************************************)
\* Timer A runs as a one-shot countdown in the current enable period.
OneShotRun == ghist.valid /\ gptm.config = 0 /\ gptm.mode[0] % 2 = 1

\* Timer A runs as a periodic countdown in the current enable period.
PeriodicRun == ghist.valid /\ gptm.config = 0 /\ gptm.mode[0] % 2 = 0

\* C2 as stated: a one-shot countdown enabled with no further control write
\* fires at most once (a fire being a run of the deadline callback), that
\* fire leaves control bit 0 clear and afterwards timer A has no pending
\* deadline.
OneShotFiresOnce ==
    OneShotRun
    => /\ ghist.kA + ghist.kB <= 1
       /\ ghist.kA + ghist.kB = 1
            => BitAnd(gptm.control, 1) = 0 /\ ~gptm.timer[0].pending

\* C4 as stated: a channel whose enable bit is clear (bit 0 for timer A,
\* bit 8 for timer B) has no pending deadline.
NoStaleDeadline ==
    /\ BitAnd(gptm.control, 1) = 0 => ~gptm.timer[0].pending
    /\ BitAnd(gptm.control, 256) = 0 => ~gptm.timer[1].pending

\* C5 as stated: in a periodic countdown enabled at t0, with L and the scale
\* unchanged, after k callbacks of timer A its next deadline is
\* t0 + (k + 1) * L * system_clock_scale.
PhasePreserved ==
    PeriodicRun
    => /\ gptm.timer[0].pending
       /\ gptm.timer[0].expire
            = TimeAdd(ghist.t0, (ghist.kA + 1) * CombinedLoad(gptm)
                                * system_clock_scale)

(***************************************************************************)
(* The real-time clock (config = 1).                                       *)
(***************************************************************************)
\* How far the RTC specification lets virtual time run (seconds).
MaxSec == 3

\* A horizon of one RTC period (s), for SpecPulse and SpecProgress.
MaxProgressSec == 1

\* SpecRtc: RTC and 16-bit configurations, PWM mode B, match values 0 (the
\* initial one), 1 and 2, the guest clearing the match bit, both enable bits.
RtcWrites ==
    {<<0, 1>>, <<0, 4>>,
     <<8, 10>>,
     <<48, 1>>, <<48, 2>>,
     <<36, 8>>,
     <<12, 0>>, <<12, 1>>, <<12, 256>>}

SpecRtc == Init /\ [][GptmNext(RtcWrites, ScaleLoads, <<MaxSec, 0>>)]_vars

\* The combined 32-bit match value.
CombinedMatch(s) == BitOr(s.match[0], s.match[1] * 65536)

\* The RTC runs in the current enable period.
RtcRun == ghist.valid /\ gptm.config = 1

\* rtc after k callbacks of a period entered with rtc = r0 and match m.
RtcAfter(r0, k, m) ==
    IF k = 0 THEN r0
    ELSE IF r0 > m THEN (k - 1) % (m + 1)
    ELSE (r0 + k) % (m + 1)

\* C3 as stated: with the RTC enabled after match M was written, rtc is
\* within [0, M], and a callback sets the match bit 0x8 (clear before it)
\* exactly when it is an (M+1)-th callback since the enable.
RtcInRange ==
    RtcRun
    => /\ gptm.rtc <= CombinedMatch(gptm)
       /\ (ghist.kA + ghist.kB >= 1 /\ ~ghist.seen)
            => (ghist.set
                <=> (ghist.kA + ghist.kB) % (CombinedMatch(gptm) + 1) = 0)

\* C3, amended: an enable does not reset rtc.  With the RTC enabled at
\* rtc = r0 after match M was written, rtc keeps r0 until the first
\* callback; after k >= 1 callbacks it is (r0 + k) mod (M + 1) when r0 <= M
\* and (k - 1) mod (M + 1) when r0 > M, hence within [0, M]; and a callback
\* sets the match bit 0x8 (clear before it) exactly when it leaves rtc = 0.
RtcCounter ==
    RtcRun
    => LET k == ghist.kA + ghist.kB
           m == CombinedMatch(gptm)
       IN  /\ gptm.rtc = RtcAfter(ghist.rtc0, k, m)
           /\ k >= 1 => gptm.rtc <= m
           /\ (k >= 1 /\ ~ghist.seen)
                => (ghist.set <=> RtcAfter(ghist.rtc0, k, m) = 0)

\* Match 1, entered at rtc = 0: the second callback has wrapped the counter
\* and set the match bit the guest had cleared.
RtcCounterWitness ==
    /\ RtcRun
    /\ CombinedMatch(gptm) = 1
    /\ ghist.rtc0 = 0
    /\ ghist.kA = 2
    /\ ~ghist.seen
    /\ ghist.set
    /\ gptm.rtc = 0

(***************************************************************************)
(* The system controller: register writes and restores of saved sections.  *)
(* A saved section is an input: rcc and rcc2 may hold any value.           *)
(***************************************************************************)
\* rcc: the reset value (field 15), 0x00800000 (field 1), 0.
\* rcc2: 0, 0xcf800000 (in use, field 31), 0x90800000 (in use, field 33).
SsysLoads ==
    {<<v, W32(rh, rl), W32(r2, 0)>> :
        v \in {1, 2}, rh \in {1934, 128, 0}, rl \in {15040, 0},
        r2 \in {0, 53120, 36992}}

SsysWrites == {0, 4, 8} \X {0, 1, 2, 14}

SsysNext ==
    \/ \E w \in SsysWrites : SsysWrite(w[1], w[2])
    \/ \E l \in SsysLoads : SsysLoad(l[1], l[2], l[3])

SpecSsys == Init /\ [][SsysNext]_vars

\* Bits 28..23 of rcc2 when its bit 31 is set, bits 26..23 of rcc otherwise.
DivisorField(s) ==
    IF s.rcc2.hi >= 32768
    THEN (s.rcc2.hi \div 128) % 64
    ELSE (s.rcc.hi \div 128) % 16

\* C6: after reset, register writes and restores, system_clock_scale is
\* 5 * (divisorField + 1) for the rcc and rcc2 the controller holds.
ScaleFollowsDivisor == system_clock_scale = 5 * (DivisorField(ssys) + 1)

\* A version-2 section with rcc2 = 0x90800000 was restored, then the guest
\* wrote the clock configuration register: the scale is 5 * 34.
ScaleFollowsDivisorWitness ==
    /\ ssys.rcc2 = W32(36992, 0)
    /\ ssys.rcc.hi = 128
    /\ ssys.rcc_cfgr = 10
    /\ system_clock_scale = 170

\* The offsets ssys_read decodes: 0x00, 0x08 and one of the catch-all bucket.
SsysReadOffsets == {0, 4, 8}

\* C11 as stated, for the system controller: saving the controller and
\* restoring the section into a fresh instance gives a controller whose
\* every register reads as before the save.
SsysRoundTrip ==
    LET r == vmstate_restore_stm32_sys(ssys.did0, vmstate_save_stm32_sys(ssys))
    IN  \A offset \in SsysReadOffsets :
            ssys_read(r, offset) = ssys_read(ssys, offset)

(***************************************************************************)
(* The ADC: sequencer 1 on the timer trigger, the guest reading the FIFOs  *)
(* of sequencers 0 and 1 and clearing the overflow and underflow status.   *)
(***************************************************************************)
\* ACTSS = 2, EMUX = 0x50, OSTAT bit 1 and USTAT bits 0 and 1 cleared.
AdcWrites == {<<0, 2>>, <<20, 80>>, <<16, 2>>, <<24, 3>>}

\* SSFIFO0 and SSFIFO1.
AdcReads == {72, 104}

AdcNext ==
    \/ AdcTrigger
    \/ \E offset \in AdcReads : AdcRead(offset)
    \/ \E w \in AdcWrites : AdcWrite(w[1], w[2])

SpecAdc == Init /\ [][AdcNext]_vars

\* This step is a trigger pulse that offers sequencer n a sample.
TriggerStep(n) ==
    /\ ahist'.op = "trigger"
    /\ ahist'.samples > ahist.samples
    /\ adc_trigger_selects(adc, n)

\* The step stores the offered sample at the head and advances the head.
SampleStored(n) ==
    LET st == adc.fifo[n].state
        head == FifoHead(st)
    IN  /\ adc'.fifo[n].data[head] = AdcTriggerSample(adc, n)
        /\ \A i \in 0 .. 15 :
              i # head => adc'.fifo[n].data[i] = adc.fifo[n].data[i]
        /\ FifoHead(adc'.fifo[n].state) = (head + 1) % 16
        /\ FifoTail(adc'.fifo[n].state) = FifoTail(st)
        /\ BitAnd(adc'.fifo[n].state, STELLARIS_ADC_FIFO_EMPTY) = 0

\* C7: counted from a FIFO whose state word shows EMPTY, with no read in
\* between, each of the first 16 writes stores its sample and leaves the
\* sequencer's overflow bit as it was; every further write sets overflow
\* bit 1 << n in ostat and leaves the state word and the 16 slots unchanged.
FifoOverflow ==
    [][\A n \in Seq4 :
         (TriggerStep(n) /\ ahist.wr[n] >= 0)
         => IF ahist.wr[n] < 16
            THEN /\ SampleStored(n)
                 /\ BitAnd(adc'.ostat, 2 ^ n) = BitAnd(adc.ostat, 2 ^ n)
            ELSE /\ BitAnd(adc'.ostat, 2 ^ n) # 0
                 /\ adc'.fifo[n] = adc.fifo[n]]_vars

\* Sequencer 1 was offered a 17th sample with none read: its overflow bit is
\* set and the FIFO is full with head = tail.
FifoOverflowWitness ==
    /\ ahist.wr[1] = 17
    /\ ahist.op = "trigger"
    /\ BitAnd(adc.ostat, 2) # 0
    /\ BitAnd(adc.fifo[1].state, STELLARIS_ADC_FIFO_FULL) # 0
    /\ Len(ahist.q[1]) = 16

\* C8 as stated: a read of sequencer n's FIFO made while it holds no unread
\* sample sets underflow bit 1 << n in ustat and leaves the state word
\* unchanged.
FifoUnderflow ==
    [][\A n \in Seq4 :
         (ahist'.op = "read" /\ ahist'.n = n /\ ahist.q[n] = <<>>)
         => /\ BitAnd(adc'.ustat, 2 ^ n) # 0
            /\ adc'.fifo[n].state = adc.fifo[n].state]_vars

\* C24 as stated: with q the samples stored for a sequencer and not yet
\* read, oldest first, after any sequence of FIFO writes and reads the
\* EMPTY flag is set iff q is empty, the FULL flag is set iff q has 16
\* elements, (head - tail) mod 16 is the length of q mod 16, and the value
\* a read would return from a non-empty q is its oldest element.
FifoRefinesQueue ==
    \A n \in Seq4 :
        LET st == adc.fifo[n].state
            q == ahist.q[n]
        IN  /\ (BitAnd(st, STELLARIS_ADC_FIFO_EMPTY) # 0) <=> (q = <<>>)
            /\ (BitAnd(st, STELLARIS_ADC_FIFO_FULL) # 0) <=> (Len(q) = 16)
            /\ (FifoHead(st) - FifoTail(st)) % 16 = Len(q) % 16
            /\ q # <<>> => stm32_adc_fifo_read_value(adc, n) = Head(q)

(***************************************************************************)
(* The ADC trigger: sequencers 0 and 1 active or not, their trigger-source *)
(* fields selecting the timer or not.                                      *)
(***************************************************************************)
\* ACTSS = 0, 1, 2, 3; EMUX = 0x05, 0x50, 0x55.
SelectWrites == {<<0, 0>>, <<0, 1>>, <<0, 2>>, <<0, 3>>,
                 <<20, 5>>, <<20, 80>>, <<20, 85>>}

\* Samples taken in one behaviour of SpecSelect (a bound of the model).
MaxSelectSamples == 3

SelectNext ==
    \/ ahist.samples < MaxSelectSamples /\ AdcTrigger
    \/ \E w \in SelectWrites : AdcWrite(w[1], w[2])

SpecSelect == Init /\ [][SelectNext]_vars

\* Sequencer n is active and its own 4-bit field of emux selects the timer.
OwnFieldSelects(s, n) ==
    /\ BitAnd(s.actss, 2 ^ n) # 0
    /\ Shr(s.emux, 4 * n) % 16 = STELLARIS_ADC_EM_TIMER

\* C16 as stated: a run of the trigger offers one sample to the FIFO of
\* every active sequencer whose own trigger-source field is 5 and sets its
\* raw-interrupt bit, whatever the other fields hold; any other sequencer
\* keeps its FIFO and its raw-interrupt bit; the noise accumulator steps
\* once for every sequencer sampled.
TriggerSelection ==
    [][ahist'.op = "trigger"
       => /\ \A n \in Seq4 :
               IF OwnFieldSelects(adc, n)
               THEN /\ BitAnd(adc'.ris, 2 ^ n) # 0
                    /\ \/ FifoHead(adc'.fifo[n].state)
                            = (FifoHead(adc.fifo[n].state) + 1) % 16
                       \/ BitAnd(adc.fifo[n].state, STELLARIS_ADC_FIFO_FULL) # 0
               ELSE /\ adc'.fifo[n] = adc.fifo[n]
                    /\ BitAnd(adc'.ris, 2 ^ n) = BitAnd(adc.ris, 2 ^ n)
          /\ (\A n \in Seq4 : ~OwnFieldSelects(adc, n))
               => adc'.noise = adc.noise]_vars

(***************************************************************************)
(* The I2C controller and another master on its bus.                       *)
(***************************************************************************)
\* MSA = 0xa0 (send), 0xa1 (receive); every MCS command; MDR; MIMR; MICR;
\* MCR = 0x10 (master enabled), 0 (disabled).
I2cWrites ==
    {<<0, 160>>, <<0, 161>>, <<8, 90>>, <<16, 0>>, <<28, 1>>, <<32, 16>>,
     <<32, 0>>}
    \cup {<<4, v>> : v \in 1 .. 7}

\* The byte a receive returns.
I2cRx == {165}

\* Every decoded register, MICR (0x1c, write-only) and 0x24 (undecoded).
I2cReads == I2cReadOffsets \cup {28, 36}

I2cNext ==
    \/ \E w \in I2cWrites, rx \in I2cRx : I2cWrite(w[1], w[2], rx)
    \/ \E offset \in I2cReads : I2cRead(offset)
    \/ OtherMasterStart
    \/ OtherMasterEnd

SpecI2c == Init /\ [][I2cNext]_vars

\* This step is a write of `value` to MCS on the enabled controller.
McsWriteStep(value) ==
    /\ ihist'.op = "write"
    /\ ihist'.offset = 4
    /\ ihist'.value = value
    /\ BitAnd(i2c.mcr, 16) # 0

\* C9: a start written to the enabled controller while it does not hold the
\* bus and another master does sets arbitration-lost and error, leaves
\* bus-busy clear, and transfers no byte (the only bus operation is the
\* failed acquire; mdr, mris and the bus are unchanged).
ArbitrationLost ==
    [][\A v \in 1 .. 7 :
         (/\ McsWriteStep(v)
          /\ BitAnd(v, 2) # 0
          /\ BitAnd(i2c.mcs, STELLARIS_I2C_MCS_BUSBSY) = 0
          /\ bus.holder = OtherMaster)
         => /\ BitAnd(i2c'.mcs, STELLARIS_I2C_MCS_ARBLST) # 0
            /\ BitAnd(i2c'.mcs, STELLARIS_I2C_MCS_BUSBSY) = 0
            /\ BitAnd(i2c'.mcs, STELLARIS_I2C_MCS_ERROR) # 0
            /\ ihist'.ops = <<<<"start", Shr(i2c.msa, 1), i2c.msa % 2>>>>
            /\ i2c'.mdr = i2c.mdr
            /\ i2c'.mris = i2c.mris
            /\ bus' = bus]_vars

\* Start+run+stop was written for a receive while the other master held the
\* bus: arbitration is lost, and the data register keeps the written byte.
ArbitrationLostWitness ==
    /\ ihist.op = "write"
    /\ ihist.offset = 4
    /\ ihist.value = 7
    /\ ihist.ops = <<<<"start", 80, 1>>>>
    /\ bus.holder = OtherMaster
    /\ i2c.mcs = STELLARIS_I2C_MCS_ARBLST + STELLARIS_I2C_MCS_ERROR
    /\ i2c.mdr = 90

\* C10: start+run+stop written to the enabled controller on an idle bus
\* makes, in this order, one acquire, one byte transfer (a send of mdr when
\* the direction bit of msa is 0, a receive into mdr when it is 1) and one
\* release; afterwards the bus is idle, bus-busy and error are clear and
\* bit 0 of mris is set.
CombinedWrite ==
    [][(McsWriteStep(7) /\ ~i2c_bus_busy(bus))
       => /\ Len(ihist'.ops) = 3
          /\ ihist'.ops[1] = <<"start", Shr(i2c.msa, 1), i2c.msa % 2>>
          /\ IF i2c.msa % 2 = 0
             THEN ihist'.ops[2] = <<"send", i2c.mdr>> /\ i2c'.mdr = i2c.mdr
             ELSE /\ ihist'.ops[2][1] = "recv"
                  /\ i2c'.mdr = ihist'.ops[2][2] % 256
          /\ ihist'.ops[3] = <<"end">>
          /\ ~i2c_bus_busy(bus')
          /\ BitAnd(i2c'.mcs, STELLARIS_I2C_MCS_BUSBSY) = 0
          /\ BitAnd(i2c'.mcs, STELLARIS_I2C_MCS_ERROR) = 0
          /\ BitAnd(i2c'.mris, 1) # 0]_vars

\* Start+run+stop was written for a receive on the idle bus: the byte is in
\* the data register, the bus is idle again and the interrupt is raised.
CombinedWriteWitness ==
    /\ ihist.op = "write"
    /\ ihist.offset = 4
    /\ ihist.value = 7
    /\ ihist.ops = <<<<"start", 80, 1>>, <<"recv", 165>>, <<"end">>>>
    /\ i2c.mdr = 165
    /\ i2c.mris = 1
    /\ i2c.irq = 1
    /\ ~i2c_bus_busy(bus)

\* After the start attempt of a write of v to MCS the controller does not
\* hold the bus: its bus-busy flag is clear and either no start is asked for
\* or the other master holds the bus; or the flag is set on an idle bus.
NotHeldAfterStart(v) ==
    IF BitAnd(i2c.mcs, STELLARIS_I2C_MCS_BUSBSY) # 0
    THEN bus.holder = NoHolder
    ELSE BitAnd(v, 2) = 0 \/ bus.holder = OtherMaster

\* The bus operations of a step include a byte transfer or a release.
TransfersOrReleases(ops) ==
    \E i \in 1 .. Len(ops) : ops[i][1] \in {"send", "recv", "end"}

\* C13: a write to MCS of the enabled controller after whose start attempt
\* the controller does not hold the bus sets the error flag and does nothing
\* else: no byte is sent or received, mdr and mris keep their values, the
\* stop bit releases nothing and the bus is unchanged.  A step that
\* transfers a byte is one during which the controller holds the bus.
ErrorAbort ==
    [][\A v \in 1 .. 7 :
         /\ (McsWriteStep(v) /\ NotHeldAfterStart(v))
            => /\ BitAnd(i2c'.mcs, STELLARIS_I2C_MCS_ERROR) # 0
               /\ ~TransfersOrReleases(ihist'.ops)
               /\ i2c'.mdr = i2c.mdr
               /\ i2c'.mris = i2c.mris
               /\ BitClear(i2c'.mcs, STELLARIS_I2C_MCS_ERROR
                                     + STELLARIS_I2C_MCS_ARBLST)
                    = BitClear(i2c.mcs, STELLARIS_I2C_MCS_ERROR
                                        + STELLARIS_I2C_MCS_ARBLST)
               /\ bus' = bus
         /\ (ihist'.op = "write"
             /\ \E i \in 1 .. Len(ihist'.ops) :
                   ihist'.ops[i][1] \in {"send", "recv"})
            => /\ ihist'.offset = 4
               /\ bus.holder \in {NoHolder, Controller}
               /\ bus.holder = NoHolder => ihist'.ops[1][1] = "start"]_vars

\* Run+stop was written to the enabled controller, which had not started a
\* transfer, on the idle bus: the error flag is set, nothing was transferred
\* or released and no interrupt is raised.
ErrorAbortWitness ==
    /\ ihist.op = "write"
    /\ ihist.offset = 4
    /\ ihist.value = 5
    /\ ihist.ops = <<>>
    /\ BitAnd(i2c.mcr, 16) # 0
    /\ i2c.mcs = STELLARIS_I2C_MCS_ERROR
    /\ i2c.mris = 0
    /\ i2c.mdr = 90
    /\ bus.holder = NoHolder

\* C14: while bit 4 of mcr is clear, a write of any value to MCS leaves
\* every register of the controller (msa, mcs, mdr, mtpr, mimr, mris, mcr),
\* its interrupt line and the bus unchanged and makes no bus operation.
EnableGate ==
    [][(/\ ihist'.op = "write"
        /\ ihist'.offset = 4
        /\ BitAnd(i2c.mcr, 16) = 0)
       => /\ i2c' = i2c
          /\ bus' = bus
          /\ ihist'.ops = <<>>]_vars

\* The controller was disabled while it held the bus, and a stop was then
\* written to MCS: it still holds the bus and bus-busy is still set.
EnableGateWitness ==
    /\ ihist.op = "write"
    /\ ihist.offset = 4
    /\ ihist.value = 4
    /\ ihist.ops = <<>>
    /\ BitAnd(i2c.mcr, 16) = 0
    /\ BitAnd(i2c.mcs, STELLARIS_I2C_MCS_BUSBSY) # 0
    /\ bus.holder = Controller

\* C15: the bus has one holder at a time, and the controller's bus-busy flag
\* is set only while the bus is held on the controller's behalf; so it is
\* never set while the other master on the bus holds it.
BusMutualExclusion ==
    /\ BitAnd(i2c.mcs, STELLARIS_I2C_MCS_BUSBSY) # 0 => bus.holder = Controller
    /\ bus.holder = OtherMaster => BitAnd(i2c.mcs, STELLARIS_I2C_MCS_BUSBSY) = 0

\* The controller has acquired the bus and transferred a byte, and a start
\* of the other master has then failed: the controller is bus-busy and still
\* holds the bus.
BusMutualExclusionWitness ==
    /\ ihist.op = "bus"
    /\ bus.holder = Controller
    /\ BitAnd(i2c.mcs, STELLARIS_I2C_MCS_BUSBSY) # 0
    /\ BitAnd(i2c.mcs, STELLARIS_I2C_MCS_ARBLST) = 0
    /\ BitAnd(i2c.mris, 1) # 0

(***************************************************************************)
(* The interrupt lines of the timer, the ADC and the I2C controller, with  *)
(* the timer triggering the ADC.  The load stays 0, so every deadline is   *)
(* the time of the enable.                                                 *)
(***************************************************************************)
\* CTL = 0, 1, 0x21; IMR = 0, 1; CR = 1.
IrqGptmWrites == {<<12, 0>>, <<12, 1>>, <<12, 33>>, <<24, 0>>, <<24, 1>>, <<36, 1>>}

\* ACTSS = 2, EMUX = 0x50, IM = 0, 2; ISC = 2.
IrqAdcWrites == {<<0, 2>>, <<20, 80>>, <<8, 0>>, <<8, 2>>, <<12, 2>>}

\* MCR = 0x10, MCS = start|run|stop, MIMR, MICR = 1.
IrqI2cWrites == {<<32, 16>>, <<4, 7>>, <<16, 0>>, <<28, 1>>}

\* MMIS and MICR (0x1c, write-only).
IrqI2cReads == {24, 28}

IrqNext ==
    \/ \E w \in IrqGptmWrites : GptmWrite(w[1], w[2])
    \/ \E n \in Chan : GptmTick(n)
    \/ \E w \in IrqAdcWrites : AdcWrite(w[1], w[2])
    \/ \E w \in IrqI2cWrites, rx \in I2cRx : I2cWrite(w[1], w[2], rx)
    \/ \E offset \in IrqI2cReads : I2cRead(offset)

SpecIrq == Init /\ [][IrqNext]_vars

\* C12: after every register write, timer callback and ADC trigger, each
\* output line is at the level (raw status & mask) # 0: the timer's line for
\* state & mask, the I2C line for mris & mimr, ADC line n for bit n of
\* ris & im.
IrqLevels ==
    /\ gptm.irq = (IF BitAnd(gptm.state, gptm.mask) # 0 THEN 1 ELSE 0)
    /\ i2c.irq = (IF BitAnd(i2c.mris, i2c.mimr) # 0 THEN 1 ELSE 0)
    /\ \A n \in Seq4 :
          adc.irq[n] = (IF BitAnd(BitAnd(adc.ris, adc.im), 2 ^ n) # 0
                        THEN 1 ELSE 0)

\* A timer callback has raised the timer's line and, through the trigger,
\* the line of ADC sequencer 1, and a transfer has raised the I2C line; the
\* lines of the other sequencers are low.
IrqLevelsWitness ==
    /\ ghist.fired >= 1
    /\ gptm.irq = 1
    /\ i2c.irq = 1
    /\ adc.irq = [n \in Seq4 |-> IF n = 1 THEN 1 ELSE 0]
    /\ ahist.op = "trigger"

(***************************************************************************)
(* The timer triggering the ADC: sequencer 0 on the timer trigger, the     *)
(* timer as a countdown (one-shot and periodic, load 0), as the RTC and in *)
(* PWM mode, with and without the trigger output enabled.  Timer B is      *)
(* armed by bit 8 of control under CFG = 4 with TBMR = 0xA; its callback   *)
(* runs in PWM mode, or as a countdown when CFG is written 0 first.        *)
(***************************************************************************)
\* CFG = 0, 1, 4; TAMR = 1; TBMR = 0xA; CTL = 1, 0x21, 0x100, 0x121.
PulseGptmWrites ==
    {<<0, 0>>, <<0, 1>>, <<0, 4>>, <<4, 1>>, <<8, 10>>,
     <<12, 1>>, <<12, 33>>, <<12, 256>>, <<12, 289>>}

\* ACTSS = 1, EMUX = 0x5.
PulseAdcWrites == {<<0, 1>>, <<20, 5>>}

PulseNext ==
    \/ \E w \in PulseGptmWrites : GptmWrite(w[1], w[2])
    \/ \E n \in Chan : GptmTick(n)
    \/ Advance(<<MaxProgressSec, 0>>)
    \/ \E w \in PulseAdcWrites : AdcWrite(w[1], w[2])

SpecPulse == Init /\ [][PulseNext]_vars

\* This step is a callback of the timer that returned normally.
FireStep == ghist'.fired = ghist.fired + 1 /\ ~hw_error'

\* The positions in `ops` of the statements named in `names`.
OpsAt(ops, names) == {i \in 1 .. Len(ops) : ops[i][1] \in names}

\* C17: a callback of either channel taken with config = 0 sets bit 0 of
\* the raw status and pulses the trigger output once when bit 5 of control
\* is set as the callback begins (also when the same callback then clears
\* the enable bit of a one-shot timer) and not at all when it is clear; a
\* callback taken with another config does not pulse.  The pulse follows
\* the status bit and precedes the one-shot/periodic handling, which every
\* callback with config = 0 performs.  With sequencer 0 selecting the
\* timer, one pulse raises and lowers the line, which runs the trigger
\* handler of the ADC twice: two samples and raw-interrupt bit 0; no pulse
\* leaves the ADC as it was.
TimerTriggersAdc ==
    [][(FireStep /\ adc.actss = 1 /\ adc.emux = 5)
       => LET ops == ghist'.ops
              pulses == OpsAt(ops, {"pulse"})
              handling == OpsAt(ops, {"one-shot", "reload"})
          IN  /\ gptm.config = 0
                 => /\ BitAnd(gptm'.state, 1) # 0
                    /\ Cardinality(handling) = 1
                    /\ \A i \in OpsAt(ops, {"timeout"}), j \in pulses : i < j
                    /\ \A i \in pulses, j \in handling : i < j
              /\ IF gptm.config = 0 /\ BitAnd(gptm.control, 32) # 0
                 THEN /\ Cardinality(pulses) = 1
                      /\ ahist'.samples = ahist.samples + 2
                      /\ BitAnd(adc'.ris, 1) # 0
                      /\ adc'.noise = NoiseStep(NoiseStep(adc.noise))
                 ELSE /\ pulses = {}
                      /\ adc' = adc
                      /\ ahist' = ahist]_vars

\* With the trigger output enabled, the one-shot countdown of timer A has
\* fired and then the callback of timer B, armed in PWM mode before CFG was
\* written 0, has run as a countdown callback: it set the status bit,
\* pulsed, and then did the one-shot handling.  Each of the two callbacks
\* pulsed once: the ADC has taken four samples.
TimerTriggersAdcWitness ==
    /\ ghist.valid
    /\ ghist.kA = 1
    /\ ghist.kB = 1
    /\ ghist.ops = <<<<"callback", 1>>, <<"timeout">>, <<"pulse">>,
                     <<"one-shot">>, <<"update_irq">>>>
    /\ gptm.config = 0
    /\ gptm.mode[0] = 1
    /\ gptm.control = 288
    /\ BitAnd(gptm.state, 1) # 0
    /\ ahist.samples = 4
    /\ BitAnd(adc.ris, 1) # 0
    /\ ahist.op = "trigger"

(***************************************************************************)
(* Reads of the timer's registers, with the timer idle, enabled as a       *)
(* countdown or as the RTC, and with the trigger output enabled.           *)
(***************************************************************************)
\* CFG = 0, 1; CTL = 0, 1, 0x21; TAMATCHR = 1; IMR = 1.
ReadGptmWrites ==
    {<<0, 0>>, <<0, 1>>, <<12, 0>>, <<12, 1>>, <<12, 33>>, <<48, 1>>, <<24, 1>>}

\* Every decoded offset, TAR (0x48), TBR (0x4c), and the undecoded 0x10
\* and 0x50.
ReadGptmOffsets == GptmReadOffsets \cup {72, 76, 16, 80}

ReadNext ==
    \/ GptmNext(ReadGptmWrites, ScaleLoads, <<MaxSec, 0>>)
    \/ \E offset \in ReadGptmOffsets : GptmRead(offset)

SpecRead == Init /\ [][ReadNext]_vars

\* C18 as stated: in every state a read of a register of the table (the
\* RTC counter at 0x48 included) returns normally, and a read of TBR (0x4c)
\* or of an offset outside the table is fatal.
ReadOutcomes ==
    ~hw_error
    => /\ \A offset \in GptmReadOffsets \cup {72} :
             ~gptm_read_fatal(gptm, offset)
       /\ \A offset \in {76, 16, 80} : gptm_read_fatal(gptm, offset)

(***************************************************************************)
(* Writes to every register of the timer while its channels are armed.     *)
(***************************************************************************)
\* CFG = 0, 4; TBMR = 0xA; CTL = 0, 1, 0x100, 0x101; IMR = 1; CR = 1;
\* TAILR = 1, 2; TAMATCHR = 1; TAPR = 1; TBPMR = 1.
FrameWrites ==
    {<<0, 0>>, <<0, 4>>, <<8, 10>>,
     <<12, 0>>, <<12, 1>>, <<12, 256>>, <<12, 257>>,
     <<24, 1>>, <<36, 1>>, <<40, 1>>, <<40, 2>>,
     <<48, 1>>, <<56, 1>>, <<68, 1>>}

\* How far SpecFrame lets virtual time run (ns): one period of load 1, late.
MaxFrameNs == 85

SpecFrame == Init /\ [][GptmNext(FrameWrites, FrameLoads, <<0, MaxFrameNs>>)]_vars

\* C19: the stored deadlines and the pending schedules of both channels
\* change only in a callback or in a write that flips an enable bit of
\* control (bit 0 or bit 8); a write to any other register (config, mode,
\* mask, clear-status, load, match, prescale, match-prescale) leaves them
\* as they are.
DeadlineFrame ==
    [][(gptm'.tick # gptm.tick \/ gptm'.timer # gptm.timer)
       => \/ FireStep
          \/ BitAnd(BitXor(gptm'.control, gptm.control), 257) # 0]_vars

\* Timer A was enabled at time 0 with load 1 and scale 80; the load, the
\* match, a prescaler, a match-prescaler, the mask and the mode of timer B
\* were then written: the deadline is still 80.
DeadlineFrameWitness ==
    /\ ghist.fired = 0
    /\ gptm.config = 0
    /\ gptm.control = 1
    /\ gptm.timer[0] = [pending |-> TRUE, expire |-> <<0, 80>>]
    /\ gptm.tick[0] = <<0, 80>>
    /\ gptm.load[0] = 2
    /\ gptm.match[0] = 1
    /\ gptm.prescale[0] = 1
    /\ gptm.match_prescale[0] = 1
    /\ gptm.mask = 1
    /\ gptm.mode[1] = 10

(***************************************************************************)
(* Reconfiguration of timer A while it is enabled: the config, the mode    *)
(* and the load written between the enable and the callbacks.  Timer B is  *)
(* never armed.                                                            *)
(***************************************************************************)
\* CFG = 0, 1; TAMR = 0, 1; TAILR = 1, 2; CTL = 0, 1.
DeferWrites ==
    {<<0, 0>>, <<0, 1>>, <<4, 0>>, <<4, 1>>, <<40, 1>>, <<40, 2>>,
     <<12, 0>>, <<12, 1>>}

SpecDefer == Init /\ [][GptmNext(DeferWrites, FrameLoads, <<0, MaxNs>>)]_vars

\* C20 as stated: a callback of an enable period of timer A behaves by the
\* config, the mode and the load that were in place at the enable
\* (ghist.en), whatever was written since: a countdown sets the timeout bit
\* and, one-shot, clears the enable bit and schedules nothing, or,
\* periodic, schedules the next deadline one enable-time load after the
\* previous one; the RTC schedules its next deadline one second later.
DeferredReconfiguration ==
    [][(FireStep /\ ghist.en # <<>>)
       => LET config == ghist.en[1]
              mode == ghist.en[2]
              load == BitOr(ghist.en[3], ghist.en[4] * 65536)
          IN  IF config = 0
              THEN /\ BitAnd(gptm'.state, 1) # 0
                   /\ IF BitAnd(mode, 1) # 0
                      THEN /\ BitAnd(gptm'.control, 1) = 0
                           /\ ~gptm'.timer[0].pending
                      ELSE gptm'.timer[0] =
                             [pending |-> TRUE,
                              expire |-> TimeAdd(gptm.tick[0],
                                                 load * system_clock_scale)]
              ELSE gptm'.timer[0] =
                     [pending |-> TRUE,
                      expire |-> TimeAdd(gptm.tick[0], NsPerSec)]]_vars

(***************************************************************************)
(* The clock-control and clock-configuration registers of the system       *)
(* controller, written with values that have the PLL-on bit, bits of the   *)
(* selected and used fields and bits outside both.                         *)
(***************************************************************************)
\* 0, HSION, 2, 0xe, PLLON | HSION, PLLON | PLLRDY | 3, 0x00010007.
ClockValues == {0, 1, 2, 14, 16777217, 50331651, 65543}

ClockWrites == {0, 4, 8} \X ClockValues

ClockNext ==
    \/ \E w \in ClockWrites : SsysWrite(w[1], w[2])
    \/ \E l \in FrameLoads : SsysLoad(l[1], l[2], l[3])

SpecClock == Init /\ [][ClockNext]_vars

\* C21: a write to offset 0x00 of a value with the PLL-on bit set leaves
\* the stored register, and so the next read of offset 0x00, equal to the
\* written value with the PLL-ready bit set; and no step leads to a state
\* in which the stored register has PLL-on set and PLL-ready clear.
PllReady ==
    [][/\ \A v \in ClockValues :
             (SsysWrite(0, v) /\ BitAnd(v, RCC_CR_PLLON) # 0)
                => ssys_read(ssys', 0) = BitOr(v, RCC_CR_PLLRDY)
       /\ BitAnd(ssys'.rcc_cr, RCC_CR_PLLON) # 0
             => BitAnd(ssys'.rcc_cr, RCC_CR_PLLRDY) # 0]_vars

\* The guest wrote PLLON | HSION: the register reads PLLON | PLLRDY | HSION.
PllReadyWitness == ssys_read(ssys, 0) = 50331649

\* C22: a write of v to offset 0x08 leaves the stored register equal to v
\* with bits 3..2 replaced by bits 1..0 of v; and in every state a step
\* leads to, bits 3..2 of the stored register equal its bits 1..0.
ClockSelect ==
    [][/\ \A v \in ClockValues :
             SsysWrite(8, v)
                => ssys'.rcc_cfgr =
                     BitOr(BitClear(v, 12), BitAnd(v, 3) * 4)
       /\ Shr(ssys'.rcc_cfgr, 2) % 4 = ssys'.rcc_cfgr % 4]_vars

\* The guest wrote 0x00010007 to the clock configuration: the register
\* holds 0x0001000f (used = selected = 3, bit 16 as written).
ClockSelectWitness == ssys.rcc_cfgr = 65551

(***************************************************************************)
(* The system controller of a board of any identity: register writes and   *)
(* restores of saved sections after a reset for board identity did0.       *)
(***************************************************************************)
\* did0 of version 0 (Sandstorm), of version 1 class Sandstorm and of
\* version 1 class Fury: 0, 0x10000000, 0x10010000; and of unknown class,
\* for which the reset ends in hw_error: 0x10020000, 0x20000000.
BoardDid0s ==
    {W32(0, 0), W32(4096, 0), W32(4097, 0), W32(4098, 0), W32(8192, 0)}

SpecBoards == (\E did0 \in BoardDid0s : InitBoard(did0)) /\ [][SsysNext]_vars

\* rcc and rcc2 hold the values ssys_reset gives a board of either class.
ResetClocks(s) ==
    /\ s.rcc = W32(1934, 15040)
    /\ s.rcc2 \in {W32(0, 0), W32(1920, 10256)}

\* C27: a register write at any offset leaves rcc, rcc2 and the clock scale
\* as they were; the scale changes only in a step that changes rcc or rcc2
\* (a restore); and before and after every step, while rcc and rcc2 hold
\* the reset values of either board class (rcc = 0x078e3ac0, rcc2 = 0 or
\* 0x07802810), the scale is 80.
WritesKeepScale ==
    [][/\ (\E w \in SsysWrites : SsysWrite(w[1], w[2]))
          => /\ ssys'.rcc = ssys.rcc
             /\ ssys'.rcc2 = ssys.rcc2
             /\ system_clock_scale' = system_clock_scale
       /\ system_clock_scale' # system_clock_scale
          => ssys'.rcc # ssys.rcc \/ ssys'.rcc2 # ssys.rcc2
       /\ ResetClocks(ssys) => system_clock_scale = 80
       /\ ResetClocks(ssys') => system_clock_scale' = 80]_vars

\* A Fury board after reset and writes to the clock control, the clock
\* configuration and a catch-all register: rcc2 = 0x07802810, scale 80.
WritesKeepScaleWitness ==
    /\ ssys.did0 = W32(4097, 0)
    /\ ssys.rcc = W32(1934, 15040)
    /\ ssys.rcc2 = W32(1920, 10256)
    /\ ssys.rcc_cr # 0
    /\ ssys.rcc_cfgr # 0
    /\ ssys.rcc_anything_else # 0
    /\ system_clock_scale = 80

(***************************************************************************)
(* The load, match, prescale and match-prescale registers of both channels *)
(* written and read back, with the halves independent (config = 4) and     *)
(* ganged (config = 0).                                                    *)
(***************************************************************************)
\* TAILR, TBILR, TAMATCHR, TBMATCHR, TAPR, TBPR, TAPMR, TBPMR.
ChannelRegs == {40, 44, 48, 52, 56, 60, 64, 68}

\* The registers of channel A among them.
ChannelARegs == {40, 48, 56, 64}

\* CFG = 0, 4; CTL = 0, 1; 1 to each channel register; 0x00010002 to
\* TAILR and TAMATCHR.
RegWrites ==
    {<<0, 0>>, <<0, 4>>, <<12, 0>>, <<12, 1>>, <<40, 65538>>, <<48, 65538>>}
    \cup (ChannelRegs \X {1})

SpecRegs == Init /\ [][GptmNext(RegWrites, FrameLoads, <<0, MaxFrameNs>>)]_vars

\* The registers of channel n that a write to a register of the other
\* channel has to leave alone.
ChannelFields(s, n) ==
    <<s.load[n], s.match[n], s.prescale[n], s.match_prescale[n]>>

\* C23 as stated: with config >= 4 a write of a 16-bit value to a channel
\* register is read back from the same register and leaves the registers
\* of the other channel as they were; with config < 4 a write of a 32-bit
\* value to TAILR or TAMATCHR is read back from the same register.
WriteReadBack ==
    [][\A w \in RegWrites :
          (GptmWrite(w[1], w[2]) /\ ~hw_error' /\ w[1] \in ChannelRegs)
          => IF gptm.config >= 4
             THEN w[2] < 65536
                  => /\ gptm_read(gptm', w[1]) = w[2]
                     /\ LET other == IF w[1] \in ChannelARegs THEN 1 ELSE 0
                        IN  ChannelFields(gptm', other)
                              = ChannelFields(gptm, other)
             ELSE w[1] \in {40, 48} => gptm_read(gptm', w[1]) = w[2]]_vars

(***************************************************************************)
(* The interrupt mask of the I2C controller: the mask register written     *)
(* with several payloads, transfers raising the raw status, the status     *)
(* cleared, the master enabled and disabled.                               *)
(***************************************************************************)
\* MIMR = 0, 1, 2, 0xfe; MCR = 0x10, 0; MSA = 0xa0; MDR = 0x5a;
\* MCS = 3 (start, run), 7 (start, run, stop); MICR = 1, 0.
MaskWrites ==
    {<<16, 0>>, <<16, 1>>, <<16, 2>>, <<16, 254>>, <<32, 16>>, <<32, 0>>,
     <<0, 160>>, <<8, 90>>, <<4, 3>>, <<4, 7>>, <<28, 1>>, <<28, 0>>}

\* MIMR, MRIS, MMIS and MICR (0x1c, write-only).
MaskReads == {16, 20, 24, 28}

MaskNext ==
    \/ \E w \in MaskWrites, rx \in I2cRx : I2cWrite(w[1], w[2], rx)
    \/ \E offset \in MaskReads : I2cRead(offset)

SpecMask == Init /\ [][MaskNext]_vars

\* C25: a write of any payload to the interrupt-mask register leaves
\* mimr = 1; once mimr is 1 no register write changes it; and with
\* mimr = 1 the interrupt line equals bit 0 of the raw status mris.
MaskQuirk ==
    [][/\ (ihist'.op = "write" /\ ihist'.offset = 16) => i2c'.mimr = 1
       /\ i2c.mimr = 1 => i2c'.mimr = 1
       /\ i2c'.mimr = 1 => i2c'.irq = i2c'.mris % 2]_vars

\* The guest wrote 0 to the mask register while the raw status of a
\* finished transfer was pending: the mask is 1 and the line is high.
MaskQuirkWitness ==
    /\ ihist.op = "write"
    /\ ihist.offset = 16
    /\ ihist.value = 0
    /\ i2c.mimr = 1
    /\ i2c.mris = 1
    /\ i2c.irq = 1

(***************************************************************************)
(* The interrupt mask of the timer and the RTC match status: the mask      *)
(* written with and without bit 3, countdown callbacks setting the timeout *)
(* bit, RTC callbacks setting the match bit.                               *)
(***************************************************************************)
\* CFG = 0, 1; CTL = 0, 1; IMR = 0, 1, 8, 0xff; CR = 1, 8.
RtcMaskWrites ==
    {<<0, 0>>, <<0, 1>>, <<12, 0>>, <<12, 1>>,
     <<24, 0>>, <<24, 1>>, <<24, 8>>, <<24, 255>>, <<36, 1>>, <<36, 8>>}

SpecRtcMask ==
    Init /\ [][GptmNext(RtcMaskWrites, FrameLoads, <<MaxSec, 0>>)]_vars

\* C26: before and after every step the mask is a subset of 0x77; and a
\* callback taken in RTC mode (config = 1) leaves the interrupt line at the
\* level it had, which is high only when a status bit other than the RTC
\* match bit was already set and unmasked.
MaskRestriction ==
    [][/\ BitAnd(gptm.mask, 119) = gptm.mask
       /\ BitAnd(gptm'.mask, 119) = gptm'.mask
       /\ (FireStep /\ gptm.config = 1)
          => /\ gptm'.irq = gptm.irq
             /\ gptm'.irq = 1
                => BitAnd(BitClear(gptm.state, 8), gptm.mask) # 0]_vars

\* The guest wrote 0xff to the mask (0x77 is stored) and an RTC callback
\* has set the match bit: the line is low.
MaskRestrictionWitness ==
    /\ ghist.fired >= 1
    /\ gptm.config = 1
    /\ gptm.mask = 119
    /\ gptm.state = 8
    /\ gptm.irq = 0

(***************************************************************************)
(* Re-arming by the callbacks: a countdown with load 0 and 0x800000,       *)
(* periodic or one-shot, the RTC, and timer B armed in PWM mode before the *)
(* config is changed.                                                      *)
(***************************************************************************)
\* CFG = 0, 1, 4; TAMR = 0, 1; TBMR = 0xA; TAILR = 0, 0x800000
\* (a period of 0.67 s at scale 80); CTL = 0, 1, 0x100.
ProgressWrites ==
    {<<0, 0>>, <<0, 1>>, <<0, 4>>, <<4, 0>>, <<4, 1>>, <<8, 10>>,
     <<40, 0>>, <<40, 8388608>>,
     <<12, 0>>, <<12, 1>>, <<12, 256>>}

SpecProgress ==
    Init /\ [][GptmNext(ProgressWrites, FrameLoads, <<MaxProgressSec, 0>>)]_vars

\* C28: a callback of a periodic countdown (config = 0, mode A bit 0 clear)
\* schedules timer A at a deadline strictly later than its previous one
\* exactly when the combined load is at least 1; with load 0 the deadline
\* is the previous one, and after timer A's own callback the timer is
\* pending and due again with virtual time where it was.  A one-shot
\* callback schedules nothing and leaves the timer that fired idle; an RTC
\* callback schedules timer A strictly later than its previous deadline.
ReArmProgress ==
    [][FireStep
       => LET load == BitOr(gptm.load[0], gptm.load[1] * 65536)
              armed == /\ gptm'.timer[0].pending
                       /\ gptm'.timer[0].expire = gptm'.tick[0]
          IN  IF gptm.config = 0 /\ BitAnd(gptm.mode[0], 1) = 0
              THEN /\ armed
                   /\ load >= 1 <=> TimeLess(gptm.tick[0], gptm'.tick[0])
                   /\ load = 0
                      => /\ gptm'.tick[0] = gptm.tick[0]
                         /\ GptmTick(0)
                            => /\ TimeLeq(gptm'.timer[0].expire, now')
                               /\ now' = now
              ELSE IF gptm.config = 0
              THEN /\ gptm'.tick = gptm.tick
                   /\ \A n \in Chan :
                         /\ GptmTick(n) => ~gptm'.timer[n].pending
                         /\ gptm'.timer[n].pending => gptm.timer[n].pending
              ELSE gptm.config = 1
                   => /\ armed
                      /\ TimeLess(gptm.tick[0], gptm'.tick[0])]_vars

\* A periodic countdown with load 0 was enabled at time 0 and its callback
\* has run as often as the model allows with the clock still at 0: the
\* timer is pending and due again.
ReArmProgressWitness ==
    /\ ghist.fired = MaxFires
    /\ now = TimeZero
    /\ gptm.config = 0
    /\ gptm.mode[0] = 0
    /\ gptm.load = [n \in Chan |-> 0]
    /\ BitAnd(gptm.control, 1) # 0
    /\ gptm.timer[0] = [pending |-> TRUE, expire |-> TimeZero]
    /\ ~gptm.timer[1].pending

====
